---- MODULE Spec2Model ----
(***************************************************************************)
(* Awesome-TODO: the TODO record engine of the VS Code extension.          *)
(*                                                                         *)
(* Text is modelled character by character: a string is a sequence of      *)
(* one-character strings, so that regular-expression matching, trimming,   *)
(* column offsets and case folding are computed as the code computes them. *)
(* Line numbers are 0-based as in the editor API; the k-th line of a       *)
(* document d is d[k + 1].                                                 *)
(***************************************************************************)
EXTENDS Integers, Sequences, FiniteSets, TLC

VARIABLES
  docs,         \* the open text documents: file path -> sequence of lines
  localStore,   \* the array persisted in .localtodos.json
  remoteStore,  \* the array persisted in .remotetodos.json
  team,         \* the array persisted in .awesometeam.json
  workspace,    \* TRUE when vscode.workspace.workspaceFolders is non-empty
  gitUser,      \* what `git config user.name/user.email` yields, or NoUser
  now,          \* the reading of Date.now()
  op,           \* the command handler in flight: its position and locals
  nops,         \* how many commands have been invoked so far
  last,         \* the last completed command and its outcome (history)
  docs0,        \* the documents as they were at the start (history)
  todos0,       \* input list of the visibility filter (pure-function harness)
  viewer,       \* viewer email of the visibility filter (pure-function harness)
  shown,        \* result of the visibility filter (pure-function harness)
  disk,         \* the store files as text: missing, unparseable or JSON (load/save harness)
  calls,        \* the loads and saves made so far, with what they returned (load/save harness)
  waiting       \* a second handler suspended at an await while `op` runs

vars == <<docs, localStore, remoteStore, team, workspace, gitUser, now,
          op, nops, last, docs0, todos0, viewer, shown, disk, calls, waiting>>

-----------------------------------------------------------------------------
(* Bounds of the model. *)

\* longest document the engine may grow a file to (Reverse inserts lines)
MaxLines == 3
\* most records a store holds before further creations are cut off
MaxStore == 3
\* last reading of the clock
MaxClock == 1
\* most commands invoked in one run
MaxOps == 3

\* remote commands invoked in one run of the remote engine
MaxRemoteOps == 2
\* records the store files hold together when a session starts
MaxPersisted == 2
\* commands invoked in one run on stores kept from earlier sessions
MaxArgOps == 1
\* loads and saves made in one run of the load/save harness
MaxCalls == 2
\* longest input list given to the visibility filter
MaxList == 2

-----------------------------------------------------------------------------
(* Strings. *)

\* a string literal as a sequence of characters
Chars(s) == [i \in 1..Len(s) |-> SubSeq(s, i, i)]

\* \s of the regular expressions and of String.prototype.trim
IsSpace(c) == c \in {" ", "\t"}

\* case folding of the `i` flag, over the letters of TODO
Upper(c) ==
  CASE c = "t" -> "T"
    [] c = "o" -> "O"
    [] c = "d" -> "D"
    [] OTHER -> c

\* String.prototype.toLowerCase over the letters the inputs use
Lower(c) ==
  CASE c = "A" -> "a"
    [] c = "B" -> "b"
    [] c = "C" -> "c"
    [] c = "X" -> "x"
    [] OTHER -> c

ToLowerCase(s) == [i \in 1..Len(s) |-> Lower(s[i])]

\* s.substring(from, to) with 0-based `from` inclusive and `to` exclusive
Substring(s, from, to) == SubSeq(s, from + 1, to)

\* first position q >= p (0-based) whose character is not white space
RECURSIVE SkipSpaces(_, _)
SkipSpaces(s, p) ==
  IF p < Len(s) /\ IsSpace(s[p + 1]) THEN SkipSpaces(s, p + 1) ELSE p

\* end (exclusive) of the text once trailing white space is dropped
RECURSIVE TrimEnd(_, _)
TrimEnd(s, e) ==
  IF e > 0 /\ IsSpace(s[e]) THEN TrimEnd(s, e - 1) ELSE e

\* String.prototype.trim
Trim(s) ==
  LET b == SkipSpaces(s, 0)
      e == TrimEnd(s, Len(s))
  IN IF b >= e THEN <<>> ELSE Substring(s, b, e)

\* String.prototype.includes for a single character
Includes(s, c) == \E i \in 1..Len(s) : s[i] = c

\* String.prototype.indexOf: first 0-based position of `sub` in s, or -1
IndexOf(s, sub) ==
  LET hits == {p \in 0..(Len(s) - Len(sub)) : Substring(s, p, p + Len(sub)) = sub}
  IN IF hits = {} THEN -1 ELSE CHOOSE p \in hits : \A q \in hits : p <= q

-----------------------------------------------------------------------------
(* The regular expressions of the extractor.  Positions are 0-based. *)

\* length of the comment prefix ((\/\/)|#) found at p, 0 when there is none
PrefixLen(s, p) ==
  IF p + 2 <= Len(s) /\ s[p + 1] = "/" /\ s[p + 2] = "/" THEN 2
  ELSE IF p + 1 <= Len(s) /\ s[p + 1] = "#" THEN 1
  ELSE 0

\* TODO under the `i` flag at p
TodoWordAt(s, p) ==
  /\ p + 4 <= Len(s)
  /\ <<Upper(s[p + 1]), Upper(s[p + 2]), Upper(s[p + 3]), Upper(s[p + 4])>>
       = <<"T", "O", "D", "O">>

\* end of a match of ((\/\/)|#)\s*TODO anchored at p, or -1
MarkerEnd(s, p) ==
  LET n == PrefixLen(s, p)
      q == SkipSpaces(s, p + n)
  IN IF n > 0 /\ TodoWordAt(s, q) THEN q + 4 ELSE -1

\* position after the optional separator [:\-]? at m
SepEnd(s, m) ==
  IF m < Len(s) /\ s[m + 1] \in {":", "-"} THEN m + 1 ELSE m

\* leftmost p >= from at which ((\/\/)|#)\s*TODO matches, or -1
FindMarker(s, from) ==
  LET hits == {p \in from..Len(s) : MarkerEnd(s, p) # -1}
  IN IF hits = {} THEN -1 ELSE CHOOSE p \in hits : \A q \in hits : p <= q

\* LazyEnd with a greedy (.*): the message runs to the end of the line
LazyEnd_Greedy(s, b) == Len(s)

\* where the lazy (.*?) starting at b stops: the first position at which the
\* lookahead (?=(\/\/|#)\s*TODO[:\-]?|$) holds
LazyEnd(s, b) ==
  LET nxt == FindMarker(s, b)
  IN IF nxt = -1 THEN Len(s) ELSE nxt

\* todoRegex.exec(lineText) with todoRegex.lastIndex = lastIndex, for
\* /((\/\/)|#)\s*TODO[:\-]?\s*(.*?)(?=(\/\/|#)\s*TODO[:\-]?|$)/gi
TodoRegexExec(lineText, lastIndex) ==
  LET p == IF lastIndex > Len(lineText) THEN -1 ELSE FindMarker(lineText, lastIndex)
  IN IF p = -1
     THEN [found |-> FALSE, index |-> -1, group3 |-> <<>>, lastIndex |-> 0]
     ELSE LET b == SkipSpaces(lineText, SepEnd(lineText, MarkerEnd(lineText, p)))
              e == LazyEnd(lineText, b)
          IN [found |-> TRUE, index |-> p,
              group3 |-> Substring(lineText, b, e), lastIndex |-> e]

\* /^((\/\/)|#)\s*TODO[:\-]?\s*/i.test(text): the test that offers Convert
IsTodoComment(text) == MarkerEnd(text, 0) # -1

\* text.replace(/^((\/\/)|#)\s*TODO[:-]?\s*/i, "")
StripTodoPrefix(text) ==
  IF MarkerEnd(text, 0) = -1 THEN text
  ELSE Substring(text, SkipSpaces(text, SepEnd(text, MarkerEnd(text, 0))), Len(text))

\* /^(\s*)((\/\/)|#)\s*TODO[:\-]?.*$/i.test(text)
CommentRegexTest(text) == MarkerEnd(text, SkipSpaces(text, 0)) # -1

\* lineText.match(/((\/\/)|#)\s*TODO[:\-]?.*$/i): match[0], or <<>> for null
TodoCommentMatch(lineText) ==
  LET p == FindMarker(lineText, 0)
  IN IF p = -1 THEN <<>> ELSE Substring(lineText, p, Len(lineText))

-----------------------------------------------------------------------------
(* Documents. *)

FileA == "a.ts"
FileB == "b.py"
Files == {FileA, FileB}

\* document.languageId
LanguageId(f) == IF f = FileB THEN "python" ELSE "typescript"

\* document.lineCount
LineCount(d) == Len(d)

\* document.lineAt(n).text
LineAt(d, n) == d[n + 1]

\* edit.delete(uri, line.rangeIncludingLineBreak || line.range): the line and
\* its terminator go; the last line of a document has no terminator, so only
\* its text goes and an empty line stays
DeleteLine(d, n) ==
  IF n + 1 < Len(d)
  THEN SubSeq(d, 1, n) \o SubSeq(d, n + 2, Len(d))
  ELSE [d EXCEPT ![n + 1] = <<>>]

\* edit.delete(uri, new Range(n, from, n, to))
DeleteRange(d, n, from, to) ==
  [d EXCEPT ![n + 1] = Substring(@, 0, from) \o Substring(@, to, Len(@))]

\* edit.insert(uri, line.range.start, text + "\n") at line n
InsertLine(d, n, text) ==
  SubSeq(d, 1, n) \o <<text>> \o SubSeq(d, n + 1, Len(d))

\* ConvertEdit deleting the whole line whatever precedes the comment
ConvertEdit_WholeLine(d, n, lineText) == DeleteLine(d, n)

\* the WorkspaceEdit both Convert commands build and apply to the line they
\* were invoked on (lineText is the text the handler read on entry)
ConvertEdit(d, n, lineText) ==
  IF CommentRegexTest(Trim(lineText))
  THEN DeleteLine(d, n)
  ELSE LET m == TodoCommentMatch(lineText)
       IN IF m # <<>>
          THEN LET commentStart == IndexOf(lineText, m)
               IN DeleteRange(d, n, commentStart, commentStart + Len(m))
          ELSE d

-----------------------------------------------------------------------------
(* The local store. *)

\* loadTodos: no workspace folder gives [], otherwise the persisted array
LoadTodos == IF workspace THEN localStore ELSE <<>>

\* saveTodos: what .localtodos.json holds afterwards; nothing is written
\* without a workspace folder or when writeFileSync throws
SaveTodos(todos, writeOk) == IF workspace /\ writeOk THEN todos ELSE localStore

\* the while loop over todoRegex.exec(lineText) of localTodo.convertTodo
RECURSIVE ScanTodos(_, _, _, _)
ScanTodos(file, lineNumber, lineText, lastIndex) ==
  LET match == TodoRegexExec(lineText, lastIndex)
  IN IF ~match.found THEN <<>>
     ELSE LET message == Trim(match.group3)
              rest == ScanTodos(file, lineNumber, lineText, match.lastIndex)
          IN IF message # <<>>
             THEN <<[file |-> file, line |-> lineNumber, column |-> match.index,
                     type |-> "local", message |-> message,
                     id |-> <<file, lineNumber, match.index>>]>> \o rest
             ELSE rest

\* the single record of the fallback branch (it has no column)
FallbackTodo(file, lineNumber, text) ==
  [file |-> file, line |-> lineNumber, type |-> "local",
   message |-> Trim(StripTodoPrefix(text)), id |-> <<file, lineNumber, 0>>]

\* the records localTodo.convertTodo builds for a line
LocalTodosOf(file, lineNumber, lineText, text) ==
  LET todos == ScanTodos(file, lineNumber, lineText, 0)
  IN IF Len(todos) = 0 THEN <<FallbackTodo(file, lineNumber, text)>> ELSE todos

-----------------------------------------------------------------------------
(* Command handlers.  A handler that performs more than one side effect is  *)
(* split at its awaits: op holds its position (pc) and its locals.  Handlers *)
(* are run one at a time (the host invokes them sequentially), and `last`   *)
(* keeps the record of the handler that completed last.                     *)

Idle == [name |-> "idle", pc |-> "idle", saved |-> FALSE, log |-> <<>>]

\* the store files where they are kept as arrays in localStore and remoteStore
NoDisk == "none"

remoteVars == <<remoteStore, team, gitUser, now>>

\* the host invokes a command: no other handler is in flight, or
\* remoteTodo.assignTodo waits at its action list
Invoke ==
  /\ op = Idle \/ op.pc = "pick"
  /\ nops < MaxOps
  /\ nops' = nops + 1
restVars == <<docs0, todos0, viewer, shown, disk, calls, waiting>>

\* the stored local records the CodeLens of document f offers commands for
LocalLensTodos(f) ==
  {i \in 1..Len(LoadTodos) :
     LoadTodos[i].file = f /\ LoadTodos[i].line < LineCount(docs[f])}

\* the stored local records localTodo.editTodosInFile lists for document f
LocalFileTodos(f) == {i \in 1..Len(LoadTodos) : LoadTodos[i].file = f}

\* what `last` keeps of a completed handler: its outcome, whether its save
\* reached the disk, and the side effects it issued, in order
Done(name, outcome, saved, log) ==
  [name |-> name, pc |-> outcome, saved |-> saved, log |-> log]

(* localTodo.convertTodo(document, lineNumber, text) up to the first await,
   whatever line and text it is invoked with *)
LocalConvertCommand(f, n, text) ==
  /\ Invoke
  /\ n \in 0..(LineCount(docs[f]) - 1)
  /\ LET lineText == LineAt(docs[f], n)
         todos == LocalTodosOf(f, n, lineText, text)
     IN /\ Len(LoadTodos) + Len(todos) <= MaxStore
        /\ op' = [name |-> "localTodo.convertTodo", pc |-> "save", file |-> f,
                  lineNumber |-> n, lineText |-> lineText, todos |-> todos,
                  existingTodos |-> LoadTodos, saved |-> FALSE, log |-> <<"load">>]
  /\ UNCHANGED <<docs, localStore, workspace, last, remoteVars, restVars>>

\* LocalConvertStart with the source edit issued on entry, before the save
LocalConvertStart_EditFirst(f, n) ==
  /\ Invoke
  /\ n \in 0..(LineCount(docs[f]) - 1)
  /\ IsTodoComment(Trim(LineAt(docs[f], n)))
  /\ LET lineText == LineAt(docs[f], n)
         todos == LocalTodosOf(f, n, lineText, Trim(lineText))
     IN /\ Len(LoadTodos) + Len(todos) <= MaxStore
        /\ docs' = [docs EXCEPT ![f] = ConvertEdit(@, n, lineText)]
        /\ op' = [name |-> "localTodo.convertTodo", pc |-> "save", file |-> f,
                  lineNumber |-> n, lineText |-> lineText, todos |-> todos,
                  existingTodos |-> LoadTodos, saved |-> FALSE,
                  log |-> <<"load", "applyEdit">>]
  /\ UNCHANGED <<localStore, workspace, last, remoteVars, restVars>>

(* localTodo.convertTodo(document, lineNumber, text), offered by the CodeLens
   and the code action on a line whose trimmed text is a TODO comment:
   the records are built and the store is loaded *)
LocalConvertStart(f, n) ==
  /\ n \in 0..(LineCount(docs[f]) - 1)
  /\ IsTodoComment(Trim(LineAt(docs[f], n)))
  /\ LocalConvertCommand(f, n, Trim(LineAt(docs[f], n)))

\* LocalConvertSave appending to the store as it is at the time of the save
LocalConvertSave_Reload ==
  /\ op.name = "localTodo.convertTodo" /\ op.pc = "save"
  /\ \E writeOk \in BOOLEAN :
       /\ localStore' = SaveTodos(LoadTodos \o op.todos, writeOk)
       /\ op' = [op EXCEPT !.pc = "edit", !.saved = workspace /\ writeOk,
                             !.log = Append(@, "save")]
  /\ UNCHANGED <<docs, workspace, nops, last, remoteVars, restVars>>

\* await saveTodos([...existingTodos, ...todos], file)
LocalConvertSave ==
  /\ op.name = "localTodo.convertTodo" /\ op.pc = "save"
  /\ \E writeOk \in BOOLEAN :
       /\ localStore' = SaveTodos(op.existingTodos \o op.todos, writeOk)
       /\ op' = [op EXCEPT !.pc = "edit", !.saved = workspace /\ writeOk,
                             !.log = Append(@, "save")]
  /\ UNCHANGED <<docs, workspace, nops, last, remoteVars, restVars>>

\* todoCache.clear(); await vscode.workspace.applyEdit(edit); `last` also
\* keeps the line, the records built and the list loaded
LocalConvertEdit ==
  /\ op.name = "localTodo.convertTodo" /\ op.pc = "edit"
  /\ docs' = [docs EXCEPT ![op.file] = ConvertEdit(@, op.lineNumber, op.lineText)]
  /\ op' = Idle
  /\ last' = Done(op.name, "done", op.saved, op.log \o <<"clear", "applyEdit">>)
                @@ [lineText |-> op.lineText, todos |-> op.todos,
                    existingTodos |-> op.existingTodos]
  /\ UNCHANGED <<localStore, workspace, nops, remoteVars, restVars>>

\* the comment line localTodo.editTodo synthesizes for a record
TodoComment(f, lineText, todo) ==
  LET indent == Substring(lineText, 0, SkipSpaces(lineText, 0))
      commentPrefix == IF LanguageId(f) = "python" THEN Chars("#") ELSE Chars("//")
  IN indent \o commentPrefix \o Chars(" TODO: ") \o todo.message

(* localTodo.editTodo(document, lineNumber, todo) (Reverse), invoked with a
   stored record of the document and its line: the comment is inserted *)
ReverseInsert(f, i) ==
  /\ Invoke
  /\ i \in LocalFileTodos(f)
  /\ LoadTodos[i].line < LineCount(docs[f])
  /\ LineCount(docs[f]) < MaxLines
  /\ LET todo == LoadTodos[i]
         lineNumber == todo.line
         todoComment == TodoComment(f, LineAt(docs[f], lineNumber), todo)
     IN /\ docs' = [docs EXCEPT ![f] = InsertLine(@, lineNumber, todoComment)]
        /\ op' = [name |-> "localTodo.editTodo", pc |-> "load", file |-> f,
                  lineNumber |-> lineNumber, todo |-> todo,
                  todoComment |-> todoComment, todos |-> <<>>, saved |-> FALSE,
                  log |-> <<"applyEdit">>]
  /\ UNCHANGED <<localStore, workspace, last, remoteVars, restVars>>

\* const todos = await loadTodos(file)
ReverseLoad ==
  /\ op.name = "localTodo.editTodo" /\ op.pc = "load"
  /\ op' = [op EXCEPT !.pc = "save", !.todos = LoadTodos, !.log = Append(@, "load")]
  /\ UNCHANGED <<docs, localStore, workspace, nops, last, remoteVars, restVars>>

\* todos.filter((t) => !(t.file === file && t.line === lineNumber))
ReverseFilter(todos, file, lineNumber) ==
  SelectSeq(todos, LAMBDA t : ~(t.file = file /\ t.line = lineNumber))

\* await saveTodos(updatedTodos, file), then the cursor and the refreshes
ReverseSave ==
  /\ op.name = "localTodo.editTodo" /\ op.pc = "save"
  /\ \E writeOk \in BOOLEAN :
       /\ localStore' = SaveTodos(ReverseFilter(op.todos, op.file, op.lineNumber), writeOk)
       /\ last' = Done(op.name, "done", workspace /\ writeOk, Append(op.log, "save"))
  /\ op' = Idle
  /\ UNCHANGED <<docs, workspace, nops, remoteVars, restVars>>

(* localTodo.editTodo reached through localTodo.editTodosInFile with a record
   whose line is past the end of the document: document.lineAt throws and the
   handler's promise rejects before anything is changed *)
ReverseFault(f, i) ==
  /\ Invoke
  /\ i \in LocalFileTodos(f)
  /\ LoadTodos[i].line >= LineCount(docs[f])
  /\ last' = Done("localTodo.editTodo", "fault", FALSE, <<>>)
  /\ UNCHANGED <<docs, localStore, workspace, op, remoteVars, restVars>>

\* RemoveFilter without the comparison of the messages
RemoveFilter_ByLine(todos, file, lineNumber, todo) ==
  SelectSeq(todos, LAMBDA t : ~(t.file = file /\ t.line = lineNumber))

\* todos.filter((t) => !(t.file === file && t.line === lineNumber && t.message === todo.message))
RemoveFilter(todos, file, lineNumber, todo) ==
  SelectSeq(todos, LAMBDA t :
    ~(t.file = file /\ t.line = lineNumber /\ t.message = todo.message))

(* localTodo.removeTodo(document, lineNumber, todo), whatever record it is
   invoked with *)
LocalRemoveCommand(f, lineNumber, todo) ==
  /\ Invoke
  /\ \E writeOk \in BOOLEAN :
       /\ localStore' = SaveTodos(RemoveFilter(LoadTodos, f, lineNumber, todo), writeOk)
       /\ last' = Done("localTodo.removeTodo", "done", workspace /\ writeOk, <<"load", "save">>)
                    @@ [todo |-> todo, file |-> f, lineNumber |-> lineNumber,
                        todos |-> LoadTodos]
  /\ UNCHANGED <<docs, workspace, op, remoteVars, restVars>>

(* localTodo.removeTodo(document, lineNumber, todo), offered by the CodeLens
   for a stored record of the document *)
LocalRemove(f, i) ==
  /\ i \in LocalLensTodos(f)
  /\ LocalRemoveCommand(f, LoadTodos[i].line, LoadTodos[i])

\* todos.findIndex(t => t.id === todo.id), 1-based, 0 when there is none
FindIndexById(todos, id) ==
  LET hits == {k \in 1..Len(todos) : todos[k].id = id}
  IN IF hits = {} THEN 0 ELSE CHOOSE k \in hits : \A j \in hits : k <= j

(* localTodo.moveTodo(document, lineNumber, todo), whatever record it is
   invoked with: the input box accepts a number of 1..lineCount only; input
   is that number.  `last` also keeps the record and the number the handler
   was given. *)
LocalMoveCommand(f, todo, input) ==
  /\ Invoke
  /\ input \in 1..LineCount(docs[f])
  /\ LET todos == LoadTodos
         todoIndex == FindIndexById(todos, todo.id)
     IN \E writeOk \in BOOLEAN :
          /\ localStore' = IF todoIndex # 0
                           THEN SaveTodos([todos EXCEPT ![todoIndex].line = input - 1], writeOk)
                           ELSE localStore
          /\ last' = Done("localTodo.moveTodo", "done", todoIndex # 0 /\ workspace /\ writeOk,
                          IF todoIndex # 0 THEN <<"load", "save">> ELSE <<"load">>)
                        @@ [todo |-> todo, input |-> input]
  /\ UNCHANGED <<docs, workspace, op, remoteVars, restVars>>

\* localTodo.moveTodo offered by the CodeLens for a stored record of the document
LocalMove(f, i, input) ==
  /\ i \in LocalLensTodos(f)
  /\ LocalMoveCommand(f, LoadTodos[i], input)

\* localTodo.moveTodo with the input box dismissed: input is undefined
LocalMoveCancel(f, i) ==
  /\ Invoke
  /\ i \in LocalLensTodos(f)
  /\ last' = Done("localTodo.moveTodo", "cancelled", FALSE, <<>>)
                @@ [todo |-> LoadTodos[i], input |-> 0]
  /\ UNCHANGED <<docs, localStore, workspace, op, remoteVars, restVars>>

-----------------------------------------------------------------------------
(* Remote records and their handlers.  A user is a record of a name and an
   email, both character sequences; getGitUserInfo's null is NoUser. *)

NoUser == [name |-> <<>>, email |-> <<>>]

Alice == [name |-> Chars("Al"), email |-> Chars("a@x")]
Bob == [name |-> Chars("Bo"), email |-> Chars("b@x")]
Users == {Alice, Bob}

\* the host invokes a remote command
RemoteInvoke == Invoke /\ nops < MaxRemoteOps

\* getGitUserInfo(): null without a workspace folder or a configured identity
GetGitUserInfo == IF workspace THEN gitUser ELSE NoUser

\* loadRemoteTodos(filePath)
LoadRemoteTodos == IF workspace THEN remoteStore ELSE <<>>

\* saveRemoteTodos(todos, filePath): what .remotetodos.json holds afterwards
SaveRemoteTodos(todos, writeOk) == IF workspace /\ writeOk THEN todos ELSE remoteStore

\* todo.assignees?.some(assignee => assignee.email === userEmail)
SomeAssignee(assignees, userEmail) ==
  \E k \in 1..Len(assignees) : assignees[k].email = userEmail

\* FilterVisibleRemoteTodos comparing the emails without regard to case
FilterVisibleRemoteTodos_IgnoreCase(todos, userEmail) ==
  SelectSeq(todos, LAMBDA todo :
    /\ todo.type = "remote"
    /\ \/ ToLowerCase(todo.author.email) = ToLowerCase(userEmail)
       \/ \E k \in 1..Len(todo.assignees) :
            ToLowerCase(todo.assignees[k].email) = ToLowerCase(userEmail))

\* FilterVisibleRemoteTodos showing a record to its assignees only
FilterVisibleRemoteTodos_AssigneesOnly(todos, userEmail) ==
  SelectSeq(todos, LAMBDA todo :
    /\ todo.type = "remote"
    /\ SomeAssignee(todo.assignees, userEmail))

\* filterVisibleRemoteTodos(todos, userEmail)
FilterVisibleRemoteTodos(todos, userEmail) ==
  SelectSeq(todos, LAMBDA todo :
    /\ todo.type = "remote"
    /\ (todo.author.email = userEmail \/ SomeAssignee(todo.assignees, userEmail)))

\* loadTeamMembers()
LoadTeamMembers == IF workspace THEN team ELSE <<>>

\* saveTeamMembers(team): what .awesometeam.json holds afterwards
SaveTeamMembers(members, writeOk) == IF workspace /\ writeOk THEN members ELSE team

\* AddTeamMember without the duplicate test
AddTeamMember_NoDuplicateCheck(name, email, writeOk) ==
  SaveTeamMembers(Append(LoadTeamMembers, [name |-> name, email |-> email]), writeOk)

\* addTeamMember(name, email): the boolean it returns
AddTeamMemberReturns(email) ==
  ~\E k \in 1..Len(LoadTeamMembers) : LoadTeamMembers[k].email = email

\* removeTeamMember(email): the boolean it returns
RemoveTeamMemberReturns(email) ==
  Len(SelectSeq(LoadTeamMembers, LAMBDA member : member.email # email)) # Len(LoadTeamMembers)

\* addTeamMember(name, email): the team file afterwards
AddTeamMember(name, email, writeOk) ==
  IF \E k \in 1..Len(LoadTeamMembers) : LoadTeamMembers[k].email = email
  THEN team
  ELSE SaveTeamMembers(Append(LoadTeamMembers, [name |-> name, email |-> email]), writeOk)

\* removeTeamMember(email): the team file afterwards
RemoveTeamMember(email, writeOk) ==
  LET filteredTeam == SelectSeq(LoadTeamMembers, LAMBDA member : member.email # email)
  IN IF Len(filteredTeam) = Len(LoadTeamMembers)
     THEN team
     ELSE SaveTeamMembers(filteredTeam, writeOk)

\* the stored remote records the CodeLens of document f offers commands for
RemoteLensTodos(f) ==
  {i \in 1..Len(LoadRemoteTodos) :
     /\ FilterVisibleRemoteTodos(<<LoadRemoteTodos[i]>>, GetGitUserInfo.email) # <<>>
     /\ LoadRemoteTodos[i].file = f
     /\ LoadRemoteTodos[i].line < LineCount(docs[f])}

\* RemoteTodo with the kind of a local record
RemoteTodo_KindLocal(file, lineNumber, message, userInfo) ==
  [file |-> file, line |-> lineNumber, type |-> "local", message |-> message,
   id |-> <<"remote", file, lineNumber, now>>,
   author |-> userInfo, assignees |-> <<userInfo>>,
   createdAt |-> now, updatedAt |-> now]

\* the record remoteTodo.convertTodo and remoteTodo.addTodo build
RemoteTodo(file, lineNumber, message, userInfo) ==
  [file |-> file, line |-> lineNumber, type |-> "remote", message |-> message,
   id |-> <<"remote", file, lineNumber, now>>,
   author |-> userInfo, assignees |-> <<userInfo>>,
   createdAt |-> now, updatedAt |-> now]

\* the system clock moves on between two readings
Tick ==
  /\ now < MaxClock
  /\ nops < MaxRemoteOps
  /\ now' = now + 1
  /\ UNCHANGED <<docs, localStore, remoteStore, team, workspace, gitUser, op, nops,
                 last, restVars>>

\* the developer changes or clears git's user.name and user.email
GitConfig(u) ==
  /\ op = Idle
  /\ nops < MaxRemoteOps
  /\ u # gitUser
  /\ gitUser' = u
  /\ UNCHANGED <<docs, localStore, remoteStore, team, workspace, now, op, nops,
                 last, restVars>>

(* remoteTodo.convertTodo(document, lineNumber, text) up to the first await,
   whatever line and text it is invoked with *)
RemoteConvertCommand(f, n, text) ==
  /\ RemoteInvoke
  /\ n \in 0..(LineCount(docs[f]) - 1)
  /\ LET userInfo == GetGitUserInfo
         lineText == LineAt(docs[f], n)
         message == Trim(StripTodoPrefix(text))
     IN IF userInfo = NoUser
        THEN /\ last' = Done("remoteTodo.convertTodo", "rejected", FALSE, <<"noGitUser">>)
             /\ op' = op
        ELSE IF message = <<>>
        THEN /\ last' = Done("remoteTodo.convertTodo", "rejected", FALSE, <<"noMessage">>)
             /\ op' = op
        ELSE /\ Len(LoadRemoteTodos) < MaxStore
             /\ op' = [name |-> "remoteTodo.convertTodo", pc |-> "save", file |-> f,
                       lineNumber |-> n, lineText |-> lineText,
                       todo |-> RemoteTodo(f, n, message, userInfo),
                       existingTodos |-> LoadRemoteTodos, saved |-> FALSE,
                       log |-> <<"load">>]
             /\ last' = last
  /\ UNCHANGED <<docs, localStore, workspace, remoteVars, restVars>>

\* RemoteConvertStart without the early return on a missing git identity
RemoteConvertStart_NoIdentityCheck(f, n) ==
  /\ RemoteInvoke
  /\ n \in 0..(LineCount(docs[f]) - 1)
  /\ IsTodoComment(Trim(LineAt(docs[f], n)))
  /\ LET userInfo == GetGitUserInfo
         lineText == LineAt(docs[f], n)
         message == Trim(StripTodoPrefix(Trim(lineText)))
     IN IF message = <<>>
        THEN /\ last' = Done("remoteTodo.convertTodo", "rejected", FALSE, <<"noMessage">>)
             /\ op' = op
        ELSE /\ Len(LoadRemoteTodos) < MaxStore
             /\ op' = [name |-> "remoteTodo.convertTodo", pc |-> "save", file |-> f,
                       lineNumber |-> n, lineText |-> lineText,
                       todo |-> RemoteTodo(f, n, message, userInfo),
                       existingTodos |-> LoadRemoteTodos, saved |-> FALSE,
                       log |-> <<"load">>]
             /\ last' = last
  /\ UNCHANGED <<docs, localStore, workspace, remoteVars, restVars>>

(* remoteTodo.convertTodo(document, lineNumber, text), offered by the CodeLens
   on a line whose trimmed text starts with a TODO marker; text is the trimmed
   line.  Runs up to the first await. *)
RemoteConvertStart(f, n) ==
  /\ n \in 0..(LineCount(docs[f]) - 1)
  /\ IsTodoComment(Trim(LineAt(docs[f], n)))
  /\ RemoteConvertCommand(f, n, Trim(LineAt(docs[f], n)))

\* await saveRemoteTodos(updatedTodos, file)
RemoteConvertSave ==
  /\ op.name = "remoteTodo.convertTodo" /\ op.pc = "save"
  /\ \E writeOk \in BOOLEAN :
       /\ remoteStore' = SaveRemoteTodos(Append(op.existingTodos, op.todo), writeOk)
       /\ op' = [op EXCEPT !.pc = "edit", !.saved = workspace /\ writeOk,
                           !.log = Append(@, "save")]
  /\ UNCHANGED <<docs, localStore, team, workspace, gitUser, now, nops, last, restVars>>

\* todoCache.clear(), then the comment is deleted from the source
RemoteConvertEdit ==
  /\ op.name = "remoteTodo.convertTodo" /\ op.pc = "edit"
  /\ docs' = [docs EXCEPT ![op.file] = ConvertEdit(@, op.lineNumber, op.lineText)]
  /\ op' = Idle
  /\ last' = Done("remoteTodo.convertTodo", "done", op.saved,
                  op.log \o <<"clear", "applyEdit">>)
  /\ UNCHANGED <<localStore, workspace, nops, remoteVars, restVars>>

(* remoteTodo.addTodo(): message is what the input box returns (undefined and
   the empty string are both falsy), f the active editor's document, if any,
   and n the cursor's line *)
NoEditor == "none"

RemoteAdd(message, f, n) ==
  /\ RemoteInvoke
  /\ f \in Files => n \in 0..(LineCount(docs[f]) - 1)
  /\ f = NoEditor => n = 0
  /\ LET userInfo == GetGitUserInfo
     IN IF userInfo = NoUser
        THEN /\ last' = Done("remoteTodo.addTodo", "rejected", FALSE, <<"noGitUser">>)
             /\ remoteStore' = remoteStore
        ELSE IF message = <<>>
        THEN /\ last' = Done("remoteTodo.addTodo", "cancelled", FALSE, <<>>)
             /\ remoteStore' = remoteStore
        ELSE IF f = NoEditor
        THEN /\ last' = Done("remoteTodo.addTodo", "rejected", FALSE, <<"noEditor">>)
             /\ remoteStore' = remoteStore
        ELSE /\ Len(LoadRemoteTodos) < MaxStore
             /\ \E writeOk \in BOOLEAN :
                  /\ remoteStore' = SaveRemoteTodos(
                                      Append(LoadRemoteTodos,
                                             RemoteTodo(f, n, message, userInfo)),
                                      writeOk)
                  /\ last' = Done("remoteTodo.addTodo", "done", workspace /\ writeOk,
                                  <<"load", "save", "clear">>)
  /\ UNCHANGED <<docs, localStore, team, workspace, gitUser, now, op, restVars>>

(* remoteTodo.editTodo(document, lineNumber, todo), whatever record it is
   invoked with: newMessage is what the input box returns *)
RemoteEditCommand(f, todo, newMessage) ==
  /\ RemoteInvoke
  /\ LET allRemoteTodos == LoadRemoteTodos
         todoIndex == FindIndexById(allRemoteTodos, todo.id)
     IN IF newMessage = <<>> \/ newMessage = todo.message
        THEN /\ last' = Done("remoteTodo.editTodo", "cancelled", FALSE, <<>>)
                          @@ [todo |-> todo, input |-> newMessage]
             /\ remoteStore' = remoteStore
        ELSE IF todoIndex = 0
        THEN /\ last' = Done("remoteTodo.editTodo", "done", FALSE, <<"load">>)
                          @@ [todo |-> todo, input |-> newMessage]
             /\ remoteStore' = remoteStore
        ELSE \E writeOk \in BOOLEAN :
               /\ remoteStore' = SaveRemoteTodos(
                                   [allRemoteTodos EXCEPT ![todoIndex].message = newMessage,
                                                          ![todoIndex].updatedAt = now],
                                   writeOk)
               /\ last' = Done("remoteTodo.editTodo", "done", workspace /\ writeOk,
                               <<"load", "save", "clear">>)
                             @@ [todo |-> todo, input |-> newMessage]
  /\ UNCHANGED <<docs, localStore, team, workspace, gitUser, now, op, restVars>>

\* remoteTodo.editTodo offered by the CodeLens for a visible record of the document
RemoteEdit(f, i, newMessage) ==
  /\ i \in RemoteLensTodos(f)
  /\ RemoteEditCommand(f, LoadRemoteTodos[i], newMessage)

(* remoteTodo.moveTodo(document, lineNumber, todo), whatever record it is
   invoked with: the input box accepts a number of 1..lineCount only; input
   is that number, 0 when dismissed *)
RemoteMoveCommand(f, todo, input) ==
  /\ RemoteInvoke
  /\ input \in 0..LineCount(docs[f])
  /\ LET allRemoteTodos == LoadRemoteTodos
         todoIndex == FindIndexById(allRemoteTodos, todo.id)
     IN IF input = 0
        THEN /\ last' = Done("remoteTodo.moveTodo", "cancelled", FALSE, <<>>)
                          @@ [todo |-> todo, input |-> input]
             /\ remoteStore' = remoteStore
        ELSE IF todoIndex = 0
        THEN /\ last' = Done("remoteTodo.moveTodo", "done", FALSE, <<"load">>)
                          @@ [todo |-> todo, input |-> input]
             /\ remoteStore' = remoteStore
        ELSE \E writeOk \in BOOLEAN :
               /\ remoteStore' = SaveRemoteTodos(
                                   [allRemoteTodos EXCEPT ![todoIndex].line = input - 1,
                                                          ![todoIndex].updatedAt = now],
                                   writeOk)
               /\ last' = Done("remoteTodo.moveTodo", "done", workspace /\ writeOk,
                               <<"load", "save", "clear">>)
                             @@ [todo |-> todo, input |-> input]
  /\ UNCHANGED <<docs, localStore, team, workspace, gitUser, now, op, restVars>>

\* remoteTodo.moveTodo offered by the CodeLens for a visible record of the document
RemoteMove(f, i, input) ==
  /\ i \in RemoteLensTodos(f)
  /\ RemoteMoveCommand(f, LoadRemoteTodos[i], input)

\* remoteTodo.removeTodo(document, lineNumber, todo), whatever record it is invoked with
RemoteRemoveCommand(f, todo) ==
  /\ RemoteInvoke
  /\ \E writeOk \in BOOLEAN :
       /\ remoteStore' = SaveRemoteTodos(
                           SelectSeq(LoadRemoteTodos, LAMBDA t : t.id # todo.id), writeOk)
       /\ last' = Done("remoteTodo.removeTodo", "done", workspace /\ writeOk,
                       <<"load", "save", "clear">>)
                    @@ [todo |-> todo, allRemoteTodos |-> LoadRemoteTodos]
  /\ UNCHANGED <<docs, localStore, team, workspace, gitUser, now, op, restVars>>

\* remoteTodo.removeTodo offered by the CodeLens for a visible record of the document
RemoteRemove(f, i) ==
  /\ i \in RemoteLensTodos(f)
  /\ RemoteRemoveCommand(f, LoadRemoteTodos[i])

\* what the "Enter assignee email" and "Enter team member email" boxes return
EmailAnswers == {<<>>, Chars(" "), Chars("cx"), Chars("A@x"), Chars(" c@x")}

\* what the name boxes return
NameAnswers == {<<>>, Chars("Cy ")}

\* the validation loop of remoteTodo.assignTodo gives up after this many failures
MaxValidationAttempts == 3

\* currentAssignees.some(a => a.email.toLowerCase().trim() === normalizedEmail)
IsAlreadyAssigned(currentAssignees, normalizedEmail) ==
  \E k \in 1..Len(currentAssignees) :
    Trim(ToLowerCase(currentAssignees[k].email)) = normalizedEmail

\* EmailRejected comparing the emails as they are written
EmailRejected_CaseSensitive(currentAssignees, trimmedEmail) ==
  \/ trimmedEmail = <<>>
  \/ ~Includes(trimmedEmail, "@")
  \/ SomeAssignee(currentAssignees, trimmedEmail)

\* the three checks of the validation loop on one answer of the email prompt
EmailRejected(currentAssignees, trimmedEmail) ==
  \/ trimmedEmail = <<>>
  \/ ~Includes(trimmedEmail, "@")
  \/ IsAlreadyAssigned(currentAssignees, ToLowerCase(trimmedEmail))

\* the tail of remoteTodo.assignTodo: updatedAt is stamped and the list saved
AssignSave(allRemoteTodos, todoIndex, assignees, writeOk, log) ==
  /\ remoteStore' = SaveRemoteTodos(
                      [allRemoteTodos EXCEPT ![todoIndex].assignees = assignees,
                                             ![todoIndex].updatedAt = now],
                      writeOk)
  /\ last' = Done("remoteTodo.assignTodo", "done", workspace /\ writeOk,
                  log \o <<"save", "clear">>)

\* remoteTodo.assignTodo with the action list dismissed
RemoteAssignCancel(f, i) ==
  /\ RemoteInvoke
  /\ i \in RemoteLensTodos(f)
  /\ last' = Done("remoteTodo.assignTodo", "cancelled", FALSE, <<"load">>)
  /\ UNCHANGED <<docs, localStore, workspace, op, remoteVars, restVars>>

\* RemoteAssignExisting offering every team member, assigned already or not
RemoteAssignExisting_NoFilter(f, i, m) ==
  /\ RemoteInvoke
  /\ i \in RemoteLensTodos(f)
  /\ LET allRemoteTodos == LoadRemoteTodos
         todoIndex == FindIndexById(allRemoteTodos, LoadRemoteTodos[i].id)
         currentAssignees == allRemoteTodos[todoIndex].assignees
     IN /\ todoIndex # 0
        /\ m \in 1..Len(LoadTeamMembers)
        /\ \E writeOk \in BOOLEAN :
             AssignSave(allRemoteTodos, todoIndex,
                        Append(currentAssignees, LoadTeamMembers[m]), writeOk,
                        <<"load", "add_existing">>)
  /\ UNCHANGED <<docs, localStore, team, workspace, gitUser, now, op, restVars>>

\* remoteTodo.assignTodo, "Add <member>": m indexes the team list
RemoteAssignExisting(f, i, m) ==
  /\ RemoteInvoke
  /\ i \in RemoteLensTodos(f)
  /\ LET allRemoteTodos == LoadRemoteTodos
         todoIndex == FindIndexById(allRemoteTodos, LoadRemoteTodos[i].id)
         currentAssignees == allRemoteTodos[todoIndex].assignees
     IN /\ todoIndex # 0
        /\ m \in 1..Len(LoadTeamMembers)
        /\ ~SomeAssignee(currentAssignees, LoadTeamMembers[m].email)
        /\ \E writeOk \in BOOLEAN :
             AssignSave(allRemoteTodos, todoIndex,
                        Append(currentAssignees, LoadTeamMembers[m]), writeOk,
                        <<"load", "add_existing">>)
  /\ UNCHANGED <<docs, localStore, team, workspace, gitUser, now, op, restVars>>

(* remoteTodo.assignTodo, "Add New Team Member", from the name prompt on:
   assigneeName is the name prompt's result and addToTeam the last pick's
   ("" when dismissed) *)
AssignNewAccepted(allRemoteTodos, todoIndex, assigneeEmail) ==
  \E assigneeName \in NameAnswers :
    IF assigneeName = <<>>
    THEN /\ last' = Done("remoteTodo.assignTodo", "cancelled", FALSE, <<"load", "add_new">>)
         /\ UNCHANGED <<remoteStore, team>>
    ELSE \E addToTeam \in {"Yes", "No", ""}, writeOk \in BOOLEAN :
           /\ IF addToTeam = "Yes"
              THEN \E teamWriteOk \in BOOLEAN :
                     team' = AddTeamMember(Trim(assigneeName), assigneeEmail, teamWriteOk)
              ELSE team' = team
           /\ AssignSave(allRemoteTodos, todoIndex,
                         Append(allRemoteTodos[todoIndex].assignees,
                                [name |-> Trim(assigneeName), email |-> assigneeEmail]),
                         writeOk, <<"load", "add_new", addToTeam>>)

(* the while loop of remoteTodo.assignTodo: each pass asks for an email; an
   empty or dismissed box returns, a rejected answer counts as an attempt *)
RECURSIVE AssignNewLoop(_, _, _)
AssignNewLoop(allRemoteTodos, todoIndex, validationAttempts) ==
  IF validationAttempts >= MaxValidationAttempts
  THEN /\ last' = Done("remoteTodo.assignTodo", "rejected", FALSE,
                       <<"load", "add_new", "attempts">>)
       /\ UNCHANGED <<remoteStore, team>>
  ELSE \E assigneeEmail \in EmailAnswers :
         IF assigneeEmail = <<>>
         THEN /\ last' = Done("remoteTodo.assignTodo", "cancelled", FALSE,
                              <<"load", "add_new">>)
              /\ UNCHANGED <<remoteStore, team>>
         ELSE IF EmailRejected(allRemoteTodos[todoIndex].assignees, Trim(assigneeEmail))
         THEN AssignNewLoop(allRemoteTodos, todoIndex, validationAttempts + 1)
         ELSE AssignNewAccepted(allRemoteTodos, todoIndex, Trim(assigneeEmail))

(* remoteTodo.assignTodo(document, lineNumber, todo), "Add New Team Member",
   whatever record it is invoked with *)
RemoteAssignNewCommand(f, todo) ==
  /\ RemoteInvoke
  /\ LET allRemoteTodos == LoadRemoteTodos
         todoIndex == FindIndexById(allRemoteTodos, todo.id)
     IN /\ todoIndex # 0
        /\ AssignNewLoop(allRemoteTodos, todoIndex, 0)
  /\ UNCHANGED <<docs, localStore, workspace, gitUser, now, op, restVars>>

\* remoteTodo.assignTodo, "Add New Team Member", offered by the CodeLens
RemoteAssignNew(f, i) ==
  /\ i \in RemoteLensTodos(f)
  /\ RemoteAssignNewCommand(f, LoadRemoteTodos[i])

\* RemoteAssignRemove without the refusal to empty the assignee list
RemoteAssignRemove_NoLastCheck(f, i, k) ==
  /\ RemoteInvoke
  /\ i \in RemoteLensTodos(f)
  /\ LET allRemoteTodos == LoadRemoteTodos
         todoIndex == FindIndexById(allRemoteTodos, LoadRemoteTodos[i].id)
         currentAssignees == allRemoteTodos[todoIndex].assignees
         filteredAssignees ==
           SelectSeq(currentAssignees, LAMBDA a : a.email # currentAssignees[k].email)
     IN /\ todoIndex # 0
        /\ k \in 1..Len(currentAssignees)
        /\ \E writeOk \in BOOLEAN :
             AssignSave(allRemoteTodos, todoIndex, filteredAssignees, writeOk,
                        <<"load", "remove">>)
  /\ UNCHANGED <<docs, localStore, team, workspace, gitUser, now, op, restVars>>

\* remoteTodo.assignTodo, "Remove <assignee>": k indexes the assignees
RemoteAssignRemove(f, i, k) ==
  /\ RemoteInvoke
  /\ i \in RemoteLensTodos(f)
  /\ LET allRemoteTodos == LoadRemoteTodos
         todoIndex == FindIndexById(allRemoteTodos, LoadRemoteTodos[i].id)
         currentAssignees == allRemoteTodos[todoIndex].assignees
         filteredAssignees ==
           SelectSeq(currentAssignees, LAMBDA a : a.email # currentAssignees[k].email)
     IN /\ todoIndex # 0
        /\ k \in 1..Len(currentAssignees)
        /\ IF Len(filteredAssignees) = 0
           THEN /\ last' = Done("remoteTodo.assignTodo", "rejected", FALSE,
                                <<"load", "remove", "lastAssignee">>)
                /\ remoteStore' = remoteStore
           ELSE \E writeOk \in BOOLEAN :
                  AssignSave(allRemoteTodos, todoIndex, filteredAssignees, writeOk,
                             <<"load", "remove">>)
  /\ UNCHANGED <<docs, localStore, team, workspace, gitUser, now, op, restVars>>

(* validateInput of the "Enter team member email" box: the box only returns
   a value this accepts *)
TeamEmailAccepted(value, teamMembers) ==
  /\ Trim(value) # <<>>
  /\ Includes(value, "@")
  /\ ~\E k \in 1..Len(teamMembers) :
        Trim(ToLowerCase(teamMembers[k].email)) = Trim(ToLowerCase(value))

(* remoteTodo.manageTeam, "Add Team Member"; memberEmail and memberName are
   what the boxes return *)
ManageTeamAdd(memberEmail, memberName) ==
  /\ memberEmail = <<>> \/ TeamEmailAccepted(memberEmail, LoadTeamMembers)
  /\ IF memberEmail = <<>> \/ memberName = <<>>
     THEN /\ team' = team
          /\ last' = Done("remoteTodo.manageTeam", "cancelled", FALSE, <<"load", "add">>)
     ELSE \E writeOk \in BOOLEAN :
            /\ team' = AddTeamMember(memberName, memberEmail, writeOk)
            /\ last' = Done("remoteTodo.manageTeam", "done", team' # team,
                            <<"load", "add">>)

\* remoteTodo.manageTeam, "Remove <member>": m indexes the team list
ManageTeamRemove(m) ==
  /\ m \in 1..Len(LoadTeamMembers)
  /\ \E writeOk \in BOOLEAN :
       /\ team' = RemoveTeamMember(LoadTeamMembers[m].email, writeOk)
       /\ last' = Done("remoteTodo.manageTeam", "done", team' # team,
                       <<"load", "remove">>)

\* remoteTodo.manageTeam, "View All Members" or the list dismissed
ManageTeamView ==
  /\ team' = team
  /\ last' = Done("remoteTodo.manageTeam", "done", FALSE, <<"load", "view">>)

\* remoteTodo.manageTeam()
ManageTeam ==
  /\ RemoteInvoke
  /\ \/ \E memberEmail \in EmailAnswers, memberName \in NameAnswers :
          ManageTeamAdd(memberEmail, memberName)
     \/ \E m \in 1..Len(LoadTeamMembers) : ManageTeamRemove(m)
     \/ ManageTeamView
  /\ UNCHANGED <<docs, localStore, remoteStore, workspace, gitUser, now, op, restVars>>

\* remoteTodo.assignTodo, "Manage Team": runs remoteTodo.manageTeam and returns
RemoteAssignManageTeam(f, i) ==
  /\ i \in RemoteLensTodos(f)
  /\ ManageTeam

-----------------------------------------------------------------------------
(* The local engine: Convert, Reverse, Remove and Move on the local store. *)

\* longest document the engine starts from
MaxInitLines == 2

\* the lines the documents are made of
LinePool ==
  { Chars("// TODO: a"),
    Chars("  # todo- b"),
    Chars("// TODO: a // TODO: b"),
    Chars("x") }

DocsUpTo(n) == UNION {[1..k -> LinePool] : k \in 1..n}

\* the Python document
DocB == <<Chars("# TODO: a")>>

NoCommand == [name |-> "none", pc |-> "none", saved |-> FALSE, log |-> <<>>]

InitRest ==
  /\ remoteStore = <<>>
  /\ team = <<>>
  /\ now = 0
  /\ op = Idle
  /\ nops = 0
  /\ last = NoCommand
  /\ todos0 = <<>>
  /\ disk = NoDisk
  /\ calls = <<>>
  /\ waiting = Idle
  /\ viewer = <<>>
  /\ shown = <<>>

Init ==
  /\ docs \in {[f \in Files |-> IF f = FileA THEN a ELSE DocB] : a \in DocsUpTo(MaxInitLines)}
  /\ docs0 = docs
  /\ localStore = <<>>
  /\ workspace \in BOOLEAN
  /\ gitUser = NoUser
  /\ InitRest

LocalConvert ==
  \/ \E f \in Files : \E n \in 0..(MaxLines - 1) : LocalConvertStart(f, n)
  \/ LocalConvertSave
  \/ LocalConvertEdit

Reverse ==
  \/ \E f \in Files : \E i \in 1..MaxStore : ReverseInsert(f, i)
  \/ ReverseLoad
  \/ ReverseSave

Next ==
  \/ LocalConvert
  \/ Reverse
  \/ \E f \in Files : \E i \in 1..MaxStore : ReverseFault(f, i)
  \/ \E f \in Files : \E i \in 1..MaxStore : LocalRemove(f, i)
  \/ \E f \in Files : \E i \in 1..MaxStore : \E input \in 1..MaxLines : LocalMove(f, i, input)
  \/ \E f \in Files : \E i \in 1..MaxStore : LocalMoveCancel(f, i)

Spec == Init /\ [][Next]_vars

(* The local engine on a disk that takes every write, with Convert and
   Reverse as the only commands. *)
SavesReachDisk ==
  /\ (op.name = "localTodo.convertTodo" /\ op.pc = "save" => op'.saved)
  /\ (op.name = "localTodo.editTodo" /\ op.pc = "save" => last'.saved)

InitConvRev == Init /\ workspace

NextConvRev == (LocalConvert \/ Reverse) /\ SavesReachDisk

SpecConvRev == InitConvRev /\ [][NextConvRev]_vars

(* The extractor: Convert applied to one-line documents built from the
   pieces of TODO comments. *)

\* most pieces a line is built from
MaxSegs == 4

Segments ==
  { Chars("// TODO: "), Chars("#todo-"), Chars("//"), Chars("a "), Chars("b"),
    Chars(" "), Chars("TODO"), Chars(":") }

RECURSIVE Concat(_)
Concat(ss) == IF ss = <<>> THEN <<>> ELSE Head(ss) \o Concat(Tail(ss))

ExtractLines == {Concat(ss) : ss \in UNION {[1..k -> Segments] : k \in 1..MaxSegs}}

InitExtract ==
  /\ docs \in {[f \in Files |-> IF f = FileA THEN <<l>> ELSE <<Chars("y")>>] : l \in ExtractLines}
  /\ docs0 = docs
  /\ localStore = <<>>
  /\ workspace = TRUE
  /\ gitUser = NoUser
  /\ InitRest

SpecExtract == InitExtract /\ [][LocalConvert]_vars

-----------------------------------------------------------------------------
(* The remote engine: the remote handlers and team management, run by
   developers who share one remote store, with the clock and git's
   configuration as the environment. *)

\* what the message boxes return
MessageAnswers == {<<>>, Chars("c"), Chars(" ")}

\* the lines document a.ts starts from
RemoteLines == {Chars("// TODO: a // TODO: b"), Chars("  # todo- b"), Chars("// TODO:")}

InitRemote ==
  /\ docs \in {[f \in Files |-> IF f = FileA THEN <<l>> ELSE <<Chars("y")>>] :
                 l \in RemoteLines}
  /\ docs0 = docs
  /\ localStore = <<>>
  /\ workspace \in BOOLEAN
  /\ gitUser \in Users \cup {NoUser}
  /\ remoteStore = <<>>
  /\ team \in {<<>>, <<Bob>>}
  /\ now = 0
  /\ op = Idle
  /\ nops = 0
  /\ last = NoCommand
  /\ todos0 = <<>>
  /\ disk = NoDisk
  /\ calls = <<>>
  /\ waiting = Idle
  /\ viewer = <<>>
  /\ shown = <<>>

RemoteConvert ==
  \/ \E f \in Files, n \in 0..(MaxLines - 1) : RemoteConvertStart(f, n)
  \/ RemoteConvertSave
  \/ RemoteConvertEdit

RemoteAssign ==
  \E f \in Files, i \in 1..MaxStore :
    \/ RemoteAssignCancel(f, i)
    \/ \E m \in 1..MaxStore : RemoteAssignExisting(f, i, m)
    \/ RemoteAssignNew(f, i)
    \/ \E k \in 1..(MaxRemoteOps + 1) : RemoteAssignRemove(f, i, k)
    \/ RemoteAssignManageTeam(f, i)

NextRemote ==
  \/ Tick
  \/ \E u \in Users \cup {NoUser} : GitConfig(u)
  \/ RemoteConvert
  \/ \E message \in MessageAnswers, f \in Files \cup {NoEditor}, n \in 0..(MaxLines - 1) :
       RemoteAdd(message, f, n)
  \/ \E f \in Files, i \in 1..MaxStore, newMessage \in MessageAnswers \cup {Chars("a")} :
       RemoteEdit(f, i, newMessage)
  \/ \E f \in Files, i \in 1..MaxStore, input \in 0..MaxLines : RemoteMove(f, i, input)
  \/ \E f \in Files, i \in 1..MaxStore : RemoteRemove(f, i)
  \/ RemoteAssign
  \/ ManageTeam

SpecRemote == InitRemote /\ [][NextRemote]_vars

-----------------------------------------------------------------------------
(* filterVisibleRemoteTodos applied to lists of records and viewer emails. *)

Cara == [name |-> Chars("Ca"), email |-> Chars("c@x")]
AliceUpper == [name |-> Chars("Al"), email |-> Chars("A@x")]

\* a stored record of the given type, author and assignees
VisibleTodo(type, author, assignees) ==
  [file |-> FileA, line |-> 0, type |-> type, message |-> Chars("a"),
   id |-> <<type, FileA, 0, 0>>, author |-> author, assignees |-> assignees,
   createdAt |-> 0, updatedAt |-> 0]

VisiblePool ==
  {VisibleTodo("remote", Alice, <<Alice>>),
   VisibleTodo("remote", Alice, <<Alice, Bob>>),
   VisibleTodo("remote", Cara, <<Cara>>),
   VisibleTodo("remote", AliceUpper, <<AliceUpper>>),
   VisibleTodo("local", Alice, <<Alice>>)}

ViewerPool == {Alice.email, Bob.email, Cara.email, AliceUpper.email, <<>>}

InitVisible ==
  /\ docs = [f \in Files |-> DocB]
  /\ docs0 = docs
  /\ localStore = <<>>
  /\ remoteStore = <<>>
  /\ team = <<>>
  /\ workspace = TRUE
  /\ gitUser = NoUser
  /\ now = 0
  /\ op = Idle
  /\ nops = 0
  /\ last = NoCommand
  /\ todos0 \in UNION {[1..k -> VisiblePool] : k \in 0..MaxList}
  /\ disk = NoDisk
  /\ calls = <<>>
  /\ waiting = Idle
  /\ viewer \in ViewerPool
  /\ shown = <<>>

\* a caller applies filterVisibleRemoteTodos(todos0, viewer)
ApplyFilterVisible ==
  /\ last = NoCommand
  /\ shown' = FilterVisibleRemoteTodos(todos0, viewer)
  /\ last' = Done("filterVisibleRemoteTodos", "done", FALSE, <<>>)
  /\ UNCHANGED <<docs, localStore, remoteStore, team, workspace, gitUser, now, op,
                 nops, docs0, todos0, viewer, disk, calls, waiting>>

SpecVisible == InitVisible /\ [][ApplyFilterVisible]_vars

-----------------------------------------------------------------------------
(* The Convert commands run on any line: a CodeLens or quick fix computed
   before the line was edited passes the text it saw then, and the commands
   can be invoked without either. *)

\* the lines document a.ts is built of
AnyLines ==
  {Chars("// TODO: a"), Chars("  # todo- b"), Chars("x // TODO: a"),
   Chars("x #TODO a // TODO: b"), Chars("x")}

\* the text argument: the trimmed line, or what a CodeLens saw earlier
AnyTexts(lineText) == {Trim(lineText), Chars("// TODO: a")}

InitConvertAny ==
  /\ docs \in {[f \in Files |-> IF f = FileA THEN a ELSE <<Chars("y")>>] :
                 a \in UNION {[1..k -> AnyLines] : k \in 1..MaxInitLines}}
  /\ docs0 = docs
  /\ localStore = <<>>
  /\ workspace = TRUE
  /\ gitUser = Alice
  /\ InitRest

\* Convert commands invoked in one run on any line
MaxAnyOps == 1

NextConvertAny ==
  \/ \E f \in Files, n \in 0..(MaxLines - 1) :
       \E text \in AnyTexts(IF n < LineCount(docs[f]) THEN LineAt(docs[f], n) ELSE <<>>) :
         nops < MaxAnyOps /\ LocalConvertCommand(f, n, text)
  \/ LocalConvertSave
  \/ LocalConvertEdit
  \/ \E f \in Files, n \in 0..(MaxLines - 1) :
       \E text \in AnyTexts(IF n < LineCount(docs[f]) THEN LineAt(docs[f], n) ELSE <<>>) :
         nops < MaxAnyOps /\ RemoteConvertCommand(f, n, text)
  \/ RemoteConvertSave
  \/ RemoteConvertEdit

SpecConvertAny == InitConvertAny /\ [][NextConvertAny]_vars


-----------------------------------------------------------------------------
(* Properties of the local engine. *)

Records(store) == {store[i] : i \in 1..Len(store)}

InLog(log, effect) == \E k \in 1..Len(log) : log[k] = effect

\* C1: every record of the local store and of the remote store has a message
\* that is non-empty after trimming (a creation or edit that would produce an
\* empty message changes nothing).
C1_MessagesNonEmpty ==
  /\ \A t \in Records(localStore) : Trim(t.message) # <<>>
  /\ \A t \in Records(remoteStore) : Trim(t.message) # <<>>

\* C2: no two records of the local store have the same id, whatever Convert,
\* Move, Reverse and Remove commands have run.
C2_LocalIdsUnique ==
  \A i, j \in 1..Len(localStore) : i # j => localStore[i].id # localStore[j].id

\* C7: when the save of a Convert did not reach the store (write failure, or
\* no project root), the handler leaves the document as it was: the TODO
\* comment is still there.
C7_NoEditAfterFailedSave ==
  [][(op.name \in {"localTodo.convertTodo", "remoteTodo.convertTodo"}
        /\ op.pc = "edit" /\ ~op.saved)
       => docs' = docs]_vars

\* C8: within one Convert the save of the store has completed before the
\* source text is deleted; within one Reverse the comment has been inserted
\* before the record is deleted from the store.
C8_StoreAndSourceOrder ==
  [][/\ ((op.name = "localTodo.convertTodo" \/ op'.name = "localTodo.convertTodo")
           /\ docs' # docs)
          => (InLog(op.log, "save") /\ localStore' = localStore)
     /\ ((op.name = "localTodo.editTodo" \/ op'.name = "localTodo.editTodo")
           /\ localStore' # localStore)
          => (InLog(op.log, "applyEdit") /\ docs' = docs)
     /\ (op = Idle /\ op'.name = "localTodo.editTodo")
          => (docs' # docs /\ InLog(op'.log, "applyEdit"))
     /\ (op.name = "localTodo.convertTodo" /\ op.pc = "save")
          => InLog(op'.log, "save")]_vars

\* a Convert followed by a Reverse have both completed, each with its save
\* on disk and its edit applied
C8_Witness ==
  /\ nops = 2
  /\ last.name = "localTodo.editTodo" /\ last.pc = "done" /\ last.saved
  /\ last.log = <<"applyEdit", "load", "save">>
  /\ localStore = <<>>
  /\ docs # docs0

\* number of TODO annotations (comment prefix + TODO) in the lines of d
RECURSIVE CommentCount(_)
CommentCount(d) ==
  IF d = <<>> THEN 0
  ELSE Cardinality({p \in 0..Len(Head(d)) : MarkerEnd(Head(d), p) # -1})
         + CommentCount(Tail(d))

StoredCount(f) == Cardinality({i \in 1..Len(localStore) : localStore[i].file = f})

\* C9: after completed Convert and Reverse commands every TODO of a file is
\* either a comment in the source or a stored record, never both and never
\* neither: comments plus records equal the annotations present at the start.
C9_OneRepresentation ==
  op = Idle =>
    \A f \in Files : CommentCount(docs[f]) + StoredCount(f) = CommentCount(docs0[f])

-----------------------------------------------------------------------------
(* The annotations of a line, stated without the scanning loop. *)

FoldsToTodo(s, q) ==
  /\ q + 4 <= Len(s)
  /\ s[q + 1] \in {"T", "t"} /\ s[q + 2] \in {"O", "o"}
  /\ s[q + 3] \in {"D", "d"} /\ s[q + 4] \in {"O", "o"}

\* a comment prefix of n characters at p, then w blanks, then TODO
AnnotationAt(s, p, n, w) ==
  /\ \/ n = 2 /\ p + 2 <= Len(s) /\ s[p + 1] = "/" /\ s[p + 2] = "/"
     \/ n = 1 /\ p + 1 <= Len(s) /\ s[p + 1] = "#"
  /\ p + n + w <= Len(s)
  /\ \A k \in 1..w : IsSpace(s[p + n + k])
  /\ FoldsToTodo(s, p + n + w)

AnnotationStarts(s) ==
  {p \in 0..Len(s) : \E n \in {1, 2} : \E w \in 0..Len(s) : AnnotationAt(s, p, n, w)}

\* the position after the TODO of the annotation at p
AnnotationEnd(s, p) ==
  CHOOSE e \in 0..Len(s) :
    \E n \in {1, 2} : \E w \in 0..Len(s) : AnnotationAt(s, p, n, w) /\ e = p + n + w + 4

\* the trimmed text between the annotation at p (its optional : or - dropped)
\* and the next annotation or the end of the line
AnnotationMessage(s, p) ==
  LET later == {q \in AnnotationStarts(s) : q > p}
      stop == IF later = {} THEN Len(s) ELSE CHOOSE q \in later : \A r \in later : q <= r
      between == Substring(s, AnnotationEnd(s, p), stop)
  IN Trim(IF between # <<>> /\ between[1] \in {":", "-"} THEN Tail(between) ELSE between)

NonEmptyAnnotations(s) == {p \in AnnotationStarts(s) : AnnotationMessage(s, p) # <<>>}

\* one record per annotation with a non-empty message, left to right
ExpectedLocalTodos(file, lineNumber, s) ==
  LET ps == NonEmptyAnnotations(s)
      At(i) == CHOOSE p \in ps : Cardinality({q \in ps : q <= p}) = i
  IN [i \in 1..Cardinality(ps) |->
        [file |-> file, line |-> lineNumber, column |-> At(i), type |-> "local",
         message |-> AnnotationMessage(s, At(i)), id |-> <<file, lineNumber, At(i)>>]]

\* C10: a local Convert of a line with k >= 1 annotations with non-empty
\* messages appends exactly k records, left to right, each with the trimmed
\* text up to the next annotation as message and the index of its prefix as
\* column.
C10_ConvertAppendsAnnotations ==
  (/\ op.name = "localTodo.convertTodo" /\ op.pc = "edit" /\ op.saved
   /\ NonEmptyAnnotations(op.lineText) # {})
    => localStore = op.existingTodos
                      \o ExpectedLocalTodos(op.file, op.lineNumber, op.lineText)

\* the line "// TODO: a // TODO: b" has been converted and saved: messages a
\* and b, columns 0 and 11
C10_Witness ==
  /\ op.name = "localTodo.convertTodo" /\ op.pc = "edit" /\ op.saved
  /\ op.lineText = Chars("// TODO: a // TODO: b")
  /\ Len(localStore) >= 2
  /\ LET n == Len(localStore)
     IN /\ localStore[n - 1].message = Chars("a") /\ localStore[n - 1].column = 0
        /\ localStore[n].message = Chars("b") /\ localStore[n].column = 11

\* C3: no two records of the remote store have the same id, also when both
\* were created for the same file and line by separate Convert or Add commands.
C3_RemoteIdsUnique ==
  \A i \in 1..Len(remoteStore) : \A j \in 1..Len(remoteStore) :
    i # j => remoteStore[i].id # remoteStore[j].id

\* C4: every remote record always has at least one assignee, it is created
\* with its author as the only assignee, and an Assign command that is
\* rejected (such as the removal of the last assignee) leaves the remote store
\* as it was.
C4_AtLeastOneAssignee ==
  /\ [](\A t \in Records(remoteStore) : Len(t.assignees) >= 1)
  /\ [][/\ \A t \in Records(remoteStore') \ Records(remoteStore) :
             (\A u \in Records(remoteStore) : u.id # t.id) => t.assignees = <<t.author>>
        /\ (nops' # nops /\ last'.name = "remoteTodo.assignTodo" /\ last'.pc = "rejected")
             => remoteStore' = remoteStore]_vars

\* an Assign command has just refused to remove the only assignee of a record
C4_Witness ==
  /\ last.name = "remoteTodo.assignTodo"
  /\ last.log = <<"load", "remove", "lastAssignee">>
  /\ \E t \in Records(remoteStore) : Len(t.assignees) = 1

\* the records of todos a viewer is to see: remote ones the viewer wrote or is
\* assigned to, the emails compared character by character
VisibleTo(t, email) ==
  /\ t.type = "remote"
  /\ (t.author.email = email \/ \E a \in Records(t.assignees) : a.email = email)

\* C5: filterVisibleRemoteTodos returns exactly the remote records whose
\* author's email or one of whose assignees' emails is the viewer's, compared
\* case-sensitively, in their original order.
C5_VisibleExactly ==
  last.name = "filterVisibleRemoteTodos" =>
    LET keep == {i \in 1..Len(todos0) : VisibleTo(todos0[i], viewer)}
        Nth(k) == CHOOSE i \in keep : Cardinality({j \in keep : j <= i}) = k
    IN /\ Len(shown) = Cardinality(keep)
       /\ \A k \in 1..Len(shown) : shown[k] = todos0[Nth(k)]

\* the filter kept the record Bob is assigned to and dropped one he is not on
C5_Witness ==
  /\ last.name = "filterVisibleRemoteTodos"
  /\ viewer = Bob.email
  /\ Len(todos0) = 2 /\ Len(shown) = 1
  /\ shown[1].author = Alice /\ shown[1].assignees = <<Alice, Bob>>

\* C6: a remote Convert invoked while no git identity is available is
\* rejected: no record is created and no document is edited.
C6_ConvertNeedsIdentity ==
  [][(/\ op = Idle /\ nops' # nops
      /\ \/ op'.name = "remoteTodo.convertTodo"
         \/ (op' = Idle /\ last'.name = "remoteTodo.convertTodo")
      /\ GetGitUserInfo = NoUser)
       => (/\ op' = Idle /\ last'.pc = "rejected"
           /\ remoteStore' = remoteStore /\ docs' = docs
           /\ localStore' = localStore /\ team' = team)]_vars

\* a remote Convert has just been refused for want of a git identity, on a
\* line that still carries its TODO comment
C6_Witness ==
  /\ last.name = "remoteTodo.convertTodo"
  /\ last.log = <<"noGitUser">>
  /\ op = Idle
  /\ docs = docs0
  /\ \E n \in 1..Len(docs[FileA]) : IsTodoComment(Trim(docs[FileA][n]))

\* C11: a remote Convert of a line with k >= 1 annotations with non-empty
\* messages appends k remote records, one per annotation, whose messages are
\* the annotations' messages, left to right.
C11_RemoteConvertPerAnnotation ==
  (/\ op.name = "remoteTodo.convertTodo" /\ op.pc = "edit" /\ op.saved
   /\ NonEmptyAnnotations(op.lineText) # {})
    => LET expected == ExpectedLocalTodos(op.file, op.lineNumber, op.lineText)
           base == Len(op.existingTodos)
       IN /\ Len(remoteStore) = base + Len(expected)
          /\ SubSeq(remoteStore, 1, base) = op.existingTodos
          /\ \A k \in 1..Len(expected) :
               /\ remoteStore[base + k].type = "remote"
               /\ remoteStore[base + k].message = expected[k].message

\* the text of a document: its lines joined by line terminators
RECURSIVE Flat(_)
Flat(d) ==
  IF Len(d) = 0 THEN <<>>
  ELSE IF Len(d) = 1 THEN d[1]
  ELSE d[1] \o <<"\n">> \o Flat(Tail(d))

\* the offset in the text of d at which line n (0-based) starts
RECURSIVE LineStart(_, _)
LineStart(d, n) == IF n = 0 THEN 0 ELSE LineStart(d, n - 1) + Len(d[n]) + 1

\* text t without the characters at offsets from..to-1
WithoutSpan(t, from, to) == SubSeq(t, 1, from) \o SubSeq(t, to + 1, Len(t))

\* C12: the source edit of a Convert deletes the whole line with its line
\* terminator when the trimmed line is entirely the TODO comment, and
\* otherwise only the span from the first prefix+TODO to the end of the line;
\* the rest of that line, every other line and every other document stay.
C12_ConvertEditFrame ==
  [][(op.name \in {"localTodo.convertTodo", "remoteTodo.convertTodo"} /\ op.pc = "edit")
       => LET d == docs[op.file]
              n == op.lineNumber
              s == d[n + 1]
              starts == AnnotationStarts(s)
              first == CHOOSE p \in starts : \A q \in starts : p <= q
              from == LineStart(d, n)
              terminator == IF n + 1 < Len(d) THEN 1 ELSE 0
          IN /\ \A g \in Files \ {op.file} : docs'[g] = docs[g]
             /\ \A k \in 1..Len(docs'[op.file]) : ~Includes(docs'[op.file][k], "\n")
             /\ Flat(docs'[op.file]) =
                  IF starts = {} THEN Flat(d)
                  ELSE IF \A k \in 1..first : IsSpace(s[k])
                  THEN WithoutSpan(Flat(d), from, from + Len(s) + terminator)
                  ELSE WithoutSpan(Flat(d), from + first, from + Len(s))]_vars

\* a Convert has cut the comment out of "x // TODO: a" and left the code before it
C12_Witness ==
  /\ last.name \in {"localTodo.convertTodo", "remoteTodo.convertTodo"}
  /\ last.pc = "done"
  /\ \E n \in 1..Len(docs[FileA]) :
       /\ n <= Len(docs0[FileA])
       /\ docs0[FileA][n] = Chars("x // TODO: a")
       /\ docs[FileA][n] = Chars("x ")
       /\ Len(docs[FileA]) = Len(docs0[FileA])

\* C13: a Reverse of record R whose save reaches the store deletes exactly the
\* records with R's file, line and message; every other record, also one on
\* the same line with another message, stays.
C13_ReverseDeletesExactly ==
  [][(op.name = "localTodo.editTodo" /\ op.pc = "save" /\ last'.saved)
       => localStore' =
            SelectSeq(localStore, LAMBDA t :
              ~(t.file = op.file /\ t.line = op.todo.line
                  /\ t.message = op.todo.message))]_vars

-----------------------------------------------------------------------------
(* Convert followed by Reverse, over comment-only lines with either prefix in
   a TypeScript and in a Python document, on a disk that takes every write. *)

RoundTripLines == {Chars("// TODO: a"), Chars("  # TODO: b"), Chars("x")}

InitRoundTrip ==
  /\ docs \in {[f \in Files |-> IF f = FileA THEN a ELSE <<l>>] :
                 a \in UNION {[1..k -> RoundTripLines] : k \in 1..MaxInitLines},
                 l \in RoundTripLines}
  /\ docs0 = docs
  /\ localStore = <<>>
  /\ workspace = TRUE
  /\ gitUser = NoUser
  /\ InitRest

SpecRoundTrip == InitRoundTrip /\ [][NextConvRev]_vars

\* a line without its leading white space
Unindent(s) == Substring(s, SkipSpaces(s, 0), Len(s))

\* <indent><prefix> TODO: <msg> with <msg> free of the prefix tokens
IsPlainTodoLine(s) ==
  \E prefix \in {Chars("//"), Chars("#")} :
    LET body == Unindent(s)
        head == prefix \o Chars(" TODO: ")
        msg == SubSeq(body, Len(head) + 1, Len(body))
    IN /\ Len(body) >= Len(head)
       /\ SubSeq(body, 1, Len(head)) = head
       /\ IndexOf(msg, Chars("//")) = -1
       /\ ~Includes(msg, "#")

\* C14: when the first command converted a comment-only line of the form
\* <indent><prefix> TODO: <msg> and the second is the Reverse of the record it
\* created, the line Reverse inserts sits at the index of the original line
\* and equals it up to indentation, in either language with either prefix.
C14_RoundTrip ==
  [][(/\ nops = 1 /\ op = Idle
      /\ last.name = "localTodo.convertTodo" /\ last.pc = "done"
      /\ op'.name = "localTodo.editTodo"
      /\ IsPlainTodoLine(docs0[op'.file][op'.lineNumber + 1]))
       => /\ op'.lineNumber < LineCount(docs'[op'.file])
          /\ Unindent(docs'[op'.file][op'.lineNumber + 1])
               = Unindent(docs0[op'.file][op'.lineNumber + 1])]_vars

-----------------------------------------------------------------------------
(* A session that starts on store files written by earlier sessions, with
   commands invoked on records a CodeLens captured earlier: the command
   arguments are the record as it was when the lens was computed, whatever
   the store holds by the time the command runs. *)

\* a record localTodo.convertTodo wrote for a comment at column 0 of line 0
StoredLocalTodo(message) ==
  [file |-> FileA, line |-> 0, column |-> 0, type |-> "local",
   message |-> message, id |-> <<FileA, 0, 0>>]

\* a record remoteTodo.addTodo wrote on line lineNumber at clock reading 0
StoredRemoteTodo(message, lineNumber) ==
  [file |-> FileA, line |-> lineNumber, type |-> "remote", message |-> message,
   id |-> <<"remote", FileA, lineNumber, 0>>,
   author |-> Alice, assignees |-> <<Alice>>, createdAt |-> 0, updatedAt |-> 0]

ArgLocalTodos == {StoredLocalTodo(Chars("a")), StoredLocalTodo(Chars("b"))}

ArgRemoteTodos ==
  { StoredRemoteTodo(Chars("c"), 0), StoredRemoteTodo(Chars("d"), 0),
    StoredRemoteTodo(Chars("c"), 1) }

StoresOf(pool) == UNION {[1..k -> pool] : k \in 0..MaxPersisted}

InitArgs ==
  /\ docs = [f \in Files |-> IF f = FileA THEN <<Chars("x"), Chars("x")>> ELSE <<Chars("y")>>]
  /\ docs0 = docs
  /\ localStore \in StoresOf(ArgLocalTodos)
  /\ remoteStore \in StoresOf(ArgRemoteTodos)
  /\ Len(localStore) + Len(remoteStore) <= MaxPersisted
  /\ workspace = TRUE
  /\ gitUser \in {Alice, NoUser}
  /\ team = <<>>
  /\ now = 0
  /\ op = Idle
  /\ nops = 0
  /\ last = NoCommand
  /\ todos0 = <<>>
  /\ disk = NoDisk
  /\ calls = <<>>
  /\ waiting = Idle
  /\ viewer = <<>>
  /\ shown = <<>>

NextArgs ==
  \/ nops < MaxArgOps /\ Tick
  \/ \E todo \in ArgLocalTodos :
       nops < MaxArgOps /\ LocalRemoveCommand(FileA, todo.line, todo)
  \/ \E todo \in ArgLocalTodos : \E input \in 1..MaxLines :
       nops < MaxArgOps /\ LocalMoveCommand(FileA, todo, input)
  \/ \E todo \in ArgRemoteTodos : \E newMessage \in {<<>>, Chars("c"), Chars("d")} :
       nops < MaxArgOps /\ RemoteEditCommand(FileA, todo, newMessage)
  \/ \E todo \in ArgRemoteTodos : \E input \in 0..MaxLines :
       nops < MaxArgOps /\ RemoteMoveCommand(FileA, todo, input)
  \/ \E todo \in ArgRemoteTodos :
       nops < MaxArgOps /\ RemoteRemoveCommand(FileA, todo)
  \/ \E todo \in ArgRemoteTodos :
       nops < MaxArgOps /\ RemoteAssignNewCommand(FileA, todo)

SpecArgs == InitArgs /\ [][NextArgs]_vars

\* what a Move that reached the disk does to a store, for the record and the
\* number `l` keeps: one stored record equal to the record passed gets the
\* line, every other record stays, and so do its id, message and author
MoveEffect(before, after, l) ==
  IF l.pc = "done" /\ l.saved
  THEN \E k \in 1..Len(before) :
         /\ before[k] = l.todo
         /\ Len(after) = Len(before)
         /\ after[k].line = l.input - 1
         /\ \A field \in {"id", "message", "author"} \cap DOMAIN before[k] :
              after[k][field] = before[k][field]
         /\ \A j \in 1..Len(before) : j # k => after[j] = before[j]
  ELSE after = before

\* C15: a Move invoked with a stored record and an accepted number n sets that
\* record's line to n - 1 and leaves its id, message and author and every
\* other record alone; a dismissed or rejected prompt leaves the store alone.
C15_MoveFrame ==
  [][/\ (nops' = nops + 1 /\ last'.name = "localTodo.moveTodo"
           /\ (\E k \in 1..Len(localStore) : localStore[k] = last'.todo))
          => MoveEffect(localStore, localStore', last')
     /\ (nops' = nops + 1 /\ last'.name = "remoteTodo.moveTodo"
           /\ (\E k \in 1..Len(remoteStore) : remoteStore[k] = last'.todo))
          => MoveEffect(remoteStore, remoteStore', last')]_vars

C17_RemoteEditFrame ==
  [][(/\ nops' = nops + 1 /\ last'.name = "remoteTodo.editTodo"
      /\ last'.input # <<>>
      /\ \E k \in 1..Len(remoteStore) : remoteStore[k] = last'.todo)
       => IF last'.input = last'.todo.message \/ ~last'.saved
          THEN remoteStore' = remoteStore
          ELSE \E k \in 1..Len(remoteStore) :
                 /\ remoteStore[k] = last'.todo
                 /\ remoteStore' = [remoteStore EXCEPT ![k].message = last'.input,
                                                       ![k].updatedAt = now]]_vars

\* C18: whenever "Add New Team Member" changes a record's assignees, it has
\* appended one assignee whose email is trimmed, non-empty, contains "@" and
\* differs, letter case aside, from the email of every assignee the record
\* had; when the third answer in a row is refused the command ends with the
\* remote store and the roster as they were.
C18_AddNewValidated ==
  [][(nops' = nops + 1 /\ last'.name = "remoteTodo.assignTodo" /\ InLog(last'.log, "add_new"))
       => /\ last'.pc = "rejected" => (remoteStore' = remoteStore /\ team' = team)
          /\ Len(remoteStore') = Len(remoteStore)
          /\ \A k \in 1..Len(remoteStore) :
               remoteStore'[k].assignees # remoteStore[k].assignees
                 => LET old == remoteStore[k].assignees
                        new == remoteStore'[k].assignees
                        email == new[Len(new)].email
                    IN /\ Len(new) = Len(old) + 1
                       /\ SubSeq(new, 1, Len(old)) = old
                       /\ email # <<>> /\ Trim(email) = email
                       /\ Includes(email, "@")
                       /\ \A j \in 1..Len(old) :
                            ToLowerCase(old[j].email) # ToLowerCase(email)]_vars

\* "Add New Team Member" gave up after the third refused answer
C18_Witness ==
  /\ last.name = "remoteTodo.assignTodo" /\ last.pc = "rejected"
  /\ last.log = <<"load", "add_new", "attempts">>
  /\ remoteStore # <<>>

\* C19: a Move, Update-message, Assign or roster command that ends with one
\* of its prompts dismissed (the action list, the email, the name, the
\* "add to team?" pick, the line number, the new message) leaves the local
\* store, the remote store and the roster as they were.
C19_CancelNoMutation ==
  [][(/\ nops' = nops + 1
      /\ last'.name \in {"localTodo.moveTodo", "remoteTodo.moveTodo", "remoteTodo.editTodo",
                         "remoteTodo.assignTodo", "remoteTodo.manageTeam"}
      /\ (last'.pc = "cancelled" \/ InLog(last'.log, "")))
       => (localStore' = localStore /\ remoteStore' = remoteStore /\ team' = team)]_vars

\* C20: while no current-user identity is available, a remote Convert, Add,
\* Update-message, Move, Assign or Remove leaves the remote store as it was.
C20_NoIdentityNoChange ==
  [][(/\ GetGitUserInfo = NoUser
      /\ op.name \in {"idle", "remoteTodo.convertTodo"}
      /\ \/ op'.name = "remoteTodo.convertTodo"
         \/ /\ nops' = nops + 1
            /\ last'.name \in {"remoteTodo.addTodo", "remoteTodo.editTodo",
                               "remoteTodo.moveTodo", "remoteTodo.assignTodo",
                               "remoteTodo.removeTodo", "remoteTodo.convertTodo"})
       => remoteStore' = remoteStore]_vars

\* C21: in every reachable state no remote record has two assignees with the
\* same email, whatever Assign commands (add a roster member, add a new
\* identity, remove) have run.
C21_AssigneesUniqueByEmail ==
  \A t \in Records(remoteStore) :
    \A j \in 1..Len(t.assignees) : \A k \in 1..Len(t.assignees) :
      j # k => t.assignees[j].email # t.assignees[k].email

\* an Assign command has saved a record with a second assignee
C21_Witness ==
  /\ last.name = "remoteTodo.assignTodo" /\ last.pc = "done" /\ last.saved
  /\ \E t \in Records(remoteStore) : Len(t.assignees) >= 2

\* C22: an Assign command that changes the remote store changes one record,
\* the one it was invoked with, in its assignees and its updatedAt only, and
\* updatedAt is what the clock reads; the record's other fields and every
\* other record stay.
C22_AssignFrame ==
  [][/\ (nops' = nops + 1 /\ last'.name = "remoteTodo.assignTodo"
           /\ remoteStore' # remoteStore)
          => \E k \in 1..Len(remoteStore) :
               remoteStore' = [remoteStore EXCEPT ![k].assignees = remoteStore'[k].assignees,
                                                  ![k].updatedAt = now]
     /\ \A todo \in ArgRemoteTodos :
          (/\ RemoteAssignNewCommand(FileA, todo)
           /\ remoteStore' # remoteStore
           /\ \E k \in 1..Len(remoteStore) : remoteStore[k] = todo)
            => \E k \in 1..Len(remoteStore) :
                 /\ remoteStore[k] = todo
                 /\ remoteStore' = [remoteStore EXCEPT
                                      ![k].assignees = remoteStore'[k].assignees,
                                      ![k].updatedAt = now]]_vars

-----------------------------------------------------------------------------
(* Every command that writes a store, local and remote ones in one session
   that starts on the store files of earlier sessions. *)

InitStores ==
  /\ docs = [f \in Files |-> IF f = FileA THEN <<Chars("// TODO: a"), Chars("x")>>
                             ELSE <<Chars("y")>>]
  /\ docs0 = docs
  /\ localStore \in StoresOf(ArgLocalTodos)
  /\ remoteStore \in StoresOf(ArgRemoteTodos)
  /\ Len(localStore) + Len(remoteStore) <= MaxPersisted
  /\ workspace = TRUE
  /\ gitUser \in {Alice, NoUser}
  /\ team = <<>>
  /\ now = 0
  /\ op = Idle
  /\ nops = 0
  /\ last = NoCommand
  /\ todos0 = <<>>
  /\ disk = NoDisk
  /\ calls = <<>>
  /\ waiting = Idle
  /\ viewer = <<>>
  /\ shown = <<>>

NextStores ==
  \/ NextArgs
  \/ \E n \in 0..(MaxLines - 1) : nops < MaxArgOps /\ LocalConvertStart(FileA, n)
  \/ LocalConvertSave
  \/ LocalConvertEdit
  \/ \E i \in 1..MaxStore : nops < MaxArgOps /\ ReverseInsert(FileA, i)
  \/ ReverseLoad
  \/ ReverseSave
  \/ \E n \in 0..(MaxLines - 1) : nops < MaxArgOps /\ RemoteConvertStart(FileA, n)
  \/ RemoteConvertSave
  \/ RemoteConvertEdit
  \/ \E message \in MessageAnswers, n \in 0..(MaxLines - 1) :
       nops < MaxArgOps /\ RemoteAdd(message, FileA, n)

SpecStores == InitStores /\ [][NextStores]_vars

LocalCommands ==
  {"localTodo.convertTodo", "localTodo.editTodo", "localTodo.removeTodo",
   "localTodo.moveTodo"}

RemoteCommands ==
  {"remoteTodo.convertTodo", "remoteTodo.addTodo", "remoteTodo.editTodo",
   "remoteTodo.moveTodo", "remoteTodo.assignTodo", "remoteTodo.removeTodo"}

\* C23: the local store holds records of kind local only, without author,
\* assignees or timestamps, and the remote store records of kind remote only;
\* no step changes both stores, a step of a local command leaves the remote
\* store alone and a step of a remote command the local store.
C23_StoresDisjoint ==
  /\ [](/\ \A t \in Records(localStore) :
             /\ t.type = "local"
             /\ DOMAIN t \cap {"author", "assignees", "createdAt", "updatedAt"} = {}
        /\ \A t \in Records(remoteStore) : t.type = "remote")
  /\ [][LET command == IF op'.name # "idle" THEN op'.name ELSE last'.name
        IN /\ ~(localStore' # localStore /\ remoteStore' # remoteStore)
           /\ command \in LocalCommands => remoteStore' = remoteStore
           /\ command \in RemoteCommands => localStore' = localStore]_vars

\* a remote Convert has saved its record while the local store holds records
C23_Witness ==
  /\ last.name = "remoteTodo.convertTodo" /\ last.pc = "done" /\ last.saved
  /\ localStore # <<>>
  /\ Len(remoteStore) >= 2

-----------------------------------------------------------------------------
(* The roster functions applied to the rosters earlier sessions left. *)

TeamPool == {Alice, Bob, AliceUpper}

\* the rosters addTeamMember can have written: no email twice
Rosters ==
  {r \in UNION {[1..k -> TeamPool] : k \in 0..MaxList} :
     \A j \in 1..Len(r) : \A k \in 1..Len(r) : j # k => r[j].email # r[k].email}

InitTeam ==
  /\ docs = [f \in Files |-> <<Chars("x")>>]
  /\ docs0 = docs
  /\ localStore = <<>>
  /\ remoteStore = <<>>
  /\ workspace = TRUE
  /\ gitUser = Alice
  /\ team \in Rosters
  /\ now = 0
  /\ op = Idle
  /\ nops = 0
  /\ last = NoCommand
  /\ todos0 = <<>>
  /\ disk = NoDisk
  /\ calls = <<>>
  /\ waiting = Idle
  /\ viewer = <<>>
  /\ shown = <<>>

\* addTeamMember(name, email) is called
ApplyAddTeamMember(member) ==
  /\ Invoke
  /\ \E writeOk \in BOOLEAN :
       /\ team' = AddTeamMember(member.name, member.email, writeOk)
       /\ last' = Done("addTeamMember",
                       IF AddTeamMemberReturns(member.email) THEN "true" ELSE "false",
                       writeOk, <<"load">>) @@ [member |-> member]
  /\ UNCHANGED <<docs, localStore, remoteStore, workspace, gitUser, now, op, restVars>>

\* removeTeamMember(email) is called
ApplyRemoveTeamMember(member) ==
  /\ Invoke
  /\ \E writeOk \in BOOLEAN :
       /\ team' = RemoveTeamMember(member.email, writeOk)
       /\ last' = Done("removeTeamMember",
                       IF RemoveTeamMemberReturns(member.email) THEN "true" ELSE "false",
                       writeOk, <<"load">>) @@ [member |-> member]
  /\ UNCHANGED <<docs, localStore, remoteStore, workspace, gitUser, now, op, restVars>>

NextTeam ==
  \/ \E member \in TeamPool : ApplyAddTeamMember(member)
  \/ \E member \in TeamPool : ApplyRemoveTeamMember(member)

SpecTeam == InitTeam /\ [][NextTeam]_vars

\* C24: the roster never holds an email twice; addTeamMember with the email
\* of a member returns false and leaves the roster as it was, with another
\* email it returns true and the member is appended; removeTeamMember with an
\* email of no member returns false and leaves the roster as it was, with a
\* member's email it returns true and that member goes while the others keep
\* their order (a write the disk refuses leaves the file as it was).
C24_RosterAddRemove ==
  /\ [](\A j \in 1..Len(team) : \A k \in 1..Len(team) :
          j # k => team[j].email # team[k].email)
  /\ [][LET member == last'.member
            present == \E k \in 1..Len(team) : team[k].email = member.email
        IN /\ (nops' = nops + 1 /\ last'.name = "addTeamMember")
                => IF present
                   THEN last'.pc = "false" /\ team' = team
                   ELSE /\ last'.pc = "true"
                        /\ team' = IF last'.saved THEN Append(team, member) ELSE team
           /\ (nops' = nops + 1 /\ last'.name = "removeTeamMember")
                => IF ~present
                   THEN last'.pc = "false" /\ team' = team
                   ELSE /\ last'.pc = "true"
                        /\ team' = IF last'.saved
                                   THEN SelectSeq(team, LAMBDA m : m.email # member.email)
                                   ELSE team]_vars

\* addTeamMember has refused the email of a member
C24_Witness ==
  /\ last.name = "addTeamMember" /\ last.pc = "false"
  /\ \E k \in 1..Len(team) : team[k].email = last.member.email

-----------------------------------------------------------------------------
(* loadTodos/saveTodos and loadRemoteTodos/saveRemoteTodos on the store files
   as text.  A file is missing, holds text JSON.parse rejects, holds the JSON
   of something that is no array, or holds the JSON of an array; a JSON
   object is the set of its members, each a pair of a key and a value. *)

Missing == [kind |-> "missing", value |-> <<>>]
Garbage == [kind |-> "garbage", value |-> <<>>]
NotArray == [kind |-> "object", value |-> <<>>]

\* JSON.stringify of a user
EncodeUser(u) == {<<k, u[k]>> : k \in DOMAIN u}

\* JSON.stringify of a record
EncodeTodo(t) ==
  {<<k, IF k = "author" THEN EncodeUser(t[k])
        ELSE IF k = "assignees" THEN [i \in 1..Len(t[k]) |-> EncodeUser(t[k][i])]
        ELSE t[k]>> : k \in DOMAIN t}

\* JSON.parse of an object: the record of its members
DecodeObject(o) == [k \in {m[1] : m \in o} |-> (CHOOSE m \in o : m[1] = k)[2]]

\* JSON.parse of a stored record
DecodeTodo(o) ==
  LET t == DecodeObject(o)
  IN [k \in DOMAIN t |->
        IF k = "author" THEN DecodeObject(t[k])
        ELSE IF k = "assignees" THEN [i \in 1..Len(t[k]) |-> DecodeObject(t[k][i])]
        ELSE t[k]]

\* JSON.stringify(todos, null, 2)
JsonStringify(todos) ==
  [kind |-> "array", value |-> [i \in 1..Len(todos) |-> EncodeTodo(todos[i])]]

(* loadTodos(filePath) and loadRemoteTodos(filePath) on a file holding
   `content`: [] without a workspace folder, for a missing file, when
   JSON.parse throws (the catch) and when the value is no array *)
LoadFrom(content) ==
  IF ~workspace THEN <<>>
  ELSE IF content.kind = "missing" THEN <<>>
  ELSE IF content.kind = "garbage" THEN <<>>
  ELSE IF content.kind # "array" THEN <<>>
  ELSE [i \in 1..Len(content.value) |-> DecodeTodo(content.value[i])]

\* SaveTo leaving the file as it is
SaveTo_NoWrite(content, todos, writeOk) == content

(* saveTodos(todos, filePath) and saveRemoteTodos(todos, filePath): the file
   afterwards; nothing is written without a workspace folder or when
   writeFileSync throws *)
SaveTo(content, todos, writeOk) ==
  IF workspace /\ writeOk THEN JsonStringify(todos) ELSE content

StoreFiles == {"local", "remote"}

\* the lists the harness saves and finds on disk
ListsOf(store) ==
  IF store = "local"
  THEN {<<>>, <<StoredLocalTodo(Chars("a"))>>,
        <<StoredLocalTodo(Chars("a")), StoredLocalTodo(Chars("b"))>>}
  ELSE {<<>>, <<StoredRemoteTodo(Chars("c"), 0)>>,
        <<StoredRemoteTodo(Chars("c"), 0), StoredRemoteTodo(Chars("d"), 1)>>}

ContentsOf(store) ==
  {Missing, Garbage, NotArray} \cup {JsonStringify(todos) : todos \in ListsOf(store)}

InitLoad ==
  /\ docs = [f \in Files |-> <<Chars("x")>>]
  /\ docs0 = docs
  /\ localStore = <<>>
  /\ remoteStore = <<>>
  /\ team = <<>>
  /\ workspace \in BOOLEAN
  /\ gitUser = Alice
  /\ now = 0
  /\ op = Idle
  /\ nops = 0
  /\ last = NoCommand
  /\ todos0 = <<>>
  /\ viewer = <<>>
  /\ shown = <<>>
  /\ disk \in {[store \in StoreFiles |-> IF store = "local" THEN l ELSE r] :
                 l \in ContentsOf("local"), r \in ContentsOf("remote")}
  /\ calls = <<>>
  /\ waiting = Idle

\* a load of one of the stores
ApplyLoad(store) ==
  /\ Len(calls) < MaxCalls
  /\ calls' = Append(calls, [fn |-> "load", store |-> store,
                             value |-> LoadFrom(disk[store]), ok |-> TRUE])
  /\ UNCHANGED <<docs, localStore, remoteStore, team, workspace, gitUser, now, op, nops,
                 last, docs0, todos0, viewer, shown, disk, waiting>>

\* a save of one of the stores
ApplySave(store, todos) ==
  /\ Len(calls) < MaxCalls
  /\ \E writeOk \in BOOLEAN :
       /\ disk' = [disk EXCEPT ![store] = SaveTo(@, todos, writeOk)]
       /\ calls' = Append(calls, [fn |-> "save", store |-> store, value |-> todos,
                                  ok |-> workspace /\ writeOk])
  /\ UNCHANGED <<docs, localStore, remoteStore, team, workspace, gitUser, now, op, nops,
                 last, docs0, todos0, viewer, shown, waiting>>

NextLoad ==
  \/ \E store \in StoreFiles : ApplyLoad(store)
  \/ \E store \in StoreFiles : \E todos \in ListsOf(store) : ApplySave(store, todos)

SpecLoad == InitLoad /\ [][NextLoad]_vars

\* the latest call on a store, 0 when there is none
LatestCall(store) ==
  LET js == {j \in 1..Len(calls) : calls[j].store = store}
  IN IF js = {} THEN 0 ELSE CHOOSE j \in js : \A i \in js : i <= j

\* C25: a load leaves the file as it is; it returns the empty sequence for a
\* file that is missing, unparseable or no array; it returns the records of
\* the save that last succeeded on the store when that was the latest call on
\* it, and what the previous load returned when that was the latest call.
C25_LoadIdempotent ==
  [][(Len(calls') = Len(calls) + 1 /\ calls'[Len(calls')].fn = "load")
       => LET e == calls'[Len(calls')]
              j == LatestCall(e.store)
          IN /\ disk' = disk
             /\ disk[e.store].kind \in {"missing", "garbage", "object"} => e.value = <<>>
             /\ (j # 0 /\ calls[j].fn = "save" /\ calls[j].ok) => e.value = calls[j].value
             /\ (j # 0 /\ calls[j].fn = "load") => e.value = calls[j].value]_vars

\* a load has returned the non-empty list the call before it saved
C25_Witness ==
  /\ Len(calls) >= 2
  /\ calls[1].fn = "save" /\ calls[1].ok /\ calls[1].value # <<>>
  /\ calls[2].fn = "load" /\ calls[2].store = calls[1].store
  /\ calls[2].value = calls[1].value

\* C26: when a local Convert of a comment-only line with one non-empty
\* annotation has saved its record and the next command is the Remove of that
\* record by its file, line and message, the local store is again the list
\* the Convert had loaded, whatever that list held.
C26_ConvertRemoveRoundTrip ==
  [][(/\ nops' = nops + 1
      /\ last.name = "localTodo.convertTodo" /\ last.pc = "done" /\ last.saved
      /\ CommentRegexTest(Trim(last.lineText))
      /\ Len(last.todos) = 1 /\ Trim(last.todos[1].message) # <<>>
      /\ localStore = last.existingTodos \o last.todos
      /\ last'.name = "localTodo.removeTodo" /\ last'.saved
      /\ last'.todo = last.todos[1]
      /\ last'.file = last.todos[1].file /\ last'.lineNumber = last.todos[1].line)
       => localStore' = last.existingTodos]_vars

\* C27: every command that has written the local or the remote store has
\* called todoCache.clear() by the time it returns.
C27_SaveClearsCache ==
  [][(last' # last /\ last'.saved) => InLog(last'.log, "clear")]_vars

\* C28: no command ends in an unhandled fault; Reverse of a stored record
\* whose line is not a line of the current document completes and leaves the
\* local store as it was.
C28_NoUnhandledFault == last.pc # "fault"

-----------------------------------------------------------------------------
(* remoteTodo.assignTodo step by step: the handler loads the store and the
   team list, then waits at its action list while other commands run, then
   saves the list it loaded. *)

InitPrompt ==
  /\ docs = [f \in Files |-> IF f = FileA THEN <<Chars("x"), Chars("x")>> ELSE <<Chars("y")>>]
  /\ docs0 = docs
  /\ localStore = <<>>
  /\ remoteStore \in StoresOf(ArgRemoteTodos)
  /\ workspace = TRUE
  /\ gitUser = Alice
  /\ team \in {<<>>, <<Bob>>}
  /\ now = 0
  /\ op = Idle
  /\ nops = 0
  /\ last = NoCommand
  /\ todos0 = <<>>
  /\ disk = NoDisk
  /\ calls = <<>>
  /\ waiting = Idle
  /\ viewer = <<>>
  /\ shown = <<>>

(* remoteTodo.assignTodo(document, lineNumber, todo) up to showQuickPick:
   allRemoteTodos, todoIndex and teamMembers are the handler's locals *)
AssignLoad(f, todo) ==
  /\ op = Idle
  /\ RemoteInvoke
  /\ LET allRemoteTodos == LoadRemoteTodos
         todoIndex == FindIndexById(allRemoteTodos, todo.id)
     IN IF todoIndex = 0
        THEN /\ last' = Done("remoteTodo.assignTodo", "done", FALSE, <<"load">>)
             /\ op' = op
        ELSE /\ op' = [name |-> "remoteTodo.assignTodo", pc |-> "pick", saved |-> FALSE,
                       log |-> <<"load">>, todo |-> todo,
                       allRemoteTodos |-> allRemoteTodos, todoIndex |-> todoIndex,
                       teamMembers |-> LoadTeamMembers]
             /\ last' = last
  /\ UNCHANGED <<docs, localStore, workspace, remoteVars, restVars>>

(* remoteTodo.assignTodo from the answer of showQuickPick to its return *)
AssignPick ==
  /\ op.pc = "pick"
  /\ op' = Idle
  /\ LET currentAssignees == op.allRemoteTodos[op.todoIndex].assignees
     IN \/ /\ last' = Done("remoteTodo.assignTodo", "cancelled", FALSE, <<"load">>)
           /\ UNCHANGED <<remoteStore, team>>
        \/ \E m \in 1..Len(op.teamMembers), writeOk \in BOOLEAN :
             /\ ~SomeAssignee(currentAssignees, op.teamMembers[m].email)
             /\ AssignSave(op.allRemoteTodos, op.todoIndex,
                           Append(currentAssignees, op.teamMembers[m]), writeOk,
                           <<"load", "add_existing">>)
             /\ team' = team
        \/ AssignNewLoop(op.allRemoteTodos, op.todoIndex, 0)
        \/ \E k \in 1..Len(currentAssignees) :
             LET filteredAssignees ==
                   SelectSeq(currentAssignees, LAMBDA a : a.email # currentAssignees[k].email)
             IN /\ team' = team
                /\ IF Len(filteredAssignees) = 0
                   THEN /\ last' = Done("remoteTodo.assignTodo", "rejected", FALSE,
                                        <<"load", "remove", "lastAssignee">>)
                        /\ remoteStore' = remoteStore
                   ELSE \E writeOk \in BOOLEAN :
                          AssignSave(op.allRemoteTodos, op.todoIndex, filteredAssignees,
                                     writeOk, <<"load", "remove">>)
        \/ /\ remoteStore' = remoteStore
           /\ \/ \E memberEmail \in EmailAnswers, memberName \in NameAnswers :
                   ManageTeamAdd(memberEmail, memberName)
              \/ \E m \in 1..Len(LoadTeamMembers) : ManageTeamRemove(m)
              \/ ManageTeamView
  /\ UNCHANGED <<docs, localStore, workspace, gitUser, now, nops, restVars>>

NextPrompt ==
  \/ Tick
  \/ \E todo \in ArgRemoteTodos : AssignLoad(FileA, todo)
  \/ AssignPick
  \/ \E todo \in ArgRemoteTodos : \E newMessage \in {<<>>, Chars("c"), Chars("d")} :
       RemoteEditCommand(FileA, todo, newMessage)
  \/ \E todo \in ArgRemoteTodos : \E input \in 0..MaxLines :
       RemoteMoveCommand(FileA, todo, input)
  \/ \E todo \in ArgRemoteTodos : RemoteRemoveCommand(FileA, todo)
  \/ \E todo \in ArgRemoteTodos : RemoteAssignNewCommand(FileA, todo)

SpecPrompt == InitPrompt /\ [][NextPrompt]_vars

\* C29: when another command has changed the remote store while
\* remoteTodo.assignTodo waited at its action list, the store the Assign
\* saves still carries that change: it is the current store with nothing
\* touched but assignees and updatedAt.
C29_AssignKeepsCommitted ==
  [][(/\ op.pc = "pick" /\ op' = Idle
      /\ remoteStore # op.allRemoteTodos
      /\ last'.name = "remoteTodo.assignTodo" /\ last'.saved)
       => /\ Len(remoteStore') = Len(remoteStore)
          /\ \A k \in 1..Len(remoteStore) :
               [remoteStore'[k] EXCEPT !.assignees = remoteStore[k].assignees,
                                       !.updatedAt = remoteStore[k].updatedAt]
                 = remoteStore[k]]_vars

-----------------------------------------------------------------------------
(* Convert invoked again with the arguments of a CodeLens that was computed
   for the document as it was first: the line number of a line that held a
   TODO comment and the trimmed text of that line. *)

\* Convert commands invoked in one run with such arguments
MaxAgainOps == 2

\* the lines of the first document a CodeLens offered Convert for
LensLines(f) ==
  {n \in 0..(LineCount(docs0[f]) - 1) : IsTodoComment(Trim(LineAt(docs0[f], n)))}

NextConvertAgain ==
  \/ \E n \in LensLines(FileA) :
       nops < MaxAgainOps /\ LocalConvertCommand(FileA, n, Trim(LineAt(docs0[FileA], n)))
  \/ LocalConvertSave
  \/ LocalConvertEdit

SpecConvertAgain == InitConvertAny /\ [][NextConvertAgain]_vars

\* C30: a local Convert builds records only when the document line at the
\* given index holds a comment prefix followed by TODO at the time the command
\* runs; invoked a second time with the same document, line and text after
\* the first has deleted the comment, it builds none.
C30_ConvertOnlyFromLine ==
  (op.name = "localTodo.convertTodo" /\ op.pc = "save" /\ Len(op.todos) > 0)
    => AnnotationStarts(op.lineText) # {}

-----------------------------------------------------------------------------
(* Two Convert handlers in flight.  Handlers are async functions: at each
   await the host may resume the other one.  `op` is the handler that runs
   and `waiting` the one suspended at its await. *)

\* Convert commands invoked in one run
MaxConcurrentOps == 2

InitConcurrent ==
  /\ docs \in {[f \in Files |-> IF f = FileA THEN a ELSE DocB] : a \in DocsUpTo(MaxInitLines)}
  /\ docs0 = docs
  /\ localStore = <<>>
  /\ workspace = TRUE
  /\ gitUser = Alice
  /\ InitRest

\* the host resumes the suspended handler; the running one waits at its await
Switch ==
  /\ op # Idle \/ waiting # Idle
  /\ op' = waiting
  /\ waiting' = op
  /\ UNCHANGED <<docs, localStore, workspace, nops, last, remoteVars,
                 docs0, todos0, viewer, shown, disk, calls>>

NextConcurrent ==
  \/ \E n \in 0..(MaxLines - 1) : nops < MaxConcurrentOps /\ LocalConvertStart(FileA, n)
  \/ LocalConvertSave
  \/ LocalConvertEdit
  \/ \E n \in 0..(MaxLines - 1) : nops < MaxConcurrentOps /\ RemoteConvertStart(FileA, n)
  \/ RemoteConvertSave
  \/ RemoteConvertEdit
  \/ Switch

SpecConcurrent == InitConcurrent /\ [][NextConcurrent]_vars

\* both handlers are Converts of one kind that loaded the same list and have saved
BothSaved(name) ==
  /\ op.name = name /\ op.pc = "edit" /\ op.saved
  /\ waiting.name = name /\ waiting.pc = "edit" /\ waiting.saved
  /\ op.existingTodos = waiting.existingTodos

\* C31: when two Converts of one project root have both loaded the store
\* before either saved, the store after both saves is the loaded list plus
\* the records of one of them only.
C31_LostUpdate ==
  /\ BothSaved("localTodo.convertTodo")
       => localStore \in {op.existingTodos \o op.todos,
                          waiting.existingTodos \o waiting.todos}
  /\ BothSaved("remoteTodo.convertTodo")
       => remoteStore \in {Append(op.existingTodos, op.todo),
                           Append(waiting.existingTodos, waiting.todo)}

\* two local Converts of different lines have both saved and the record of
\* one of them is not in the store
C31_Witness ==
  /\ BothSaved("localTodo.convertTodo")
  /\ op.lineNumber # waiting.lineNumber
  /\ \E t \in Records(op.todos) \cup Records(waiting.todos) : t \notin Records(localStore)

\* C32: between commands every stored local record has a line that is a line
\* of its document: 0 <= line < lineCount.
C32_LinesValid ==
  op = Idle =>
    \A t \in Records(localStore) : t.line \in 0..(LineCount(docs[t.file]) - 1)

\* C33: a local Remove that writes the store deletes at most one record: the
\* store afterwards is the store before, or the store before without one of
\* its records, all others kept in place and unchanged.
C33_RemoveAtMostOne ==
  [][(nops' = nops + 1 /\ last'.name = "localTodo.removeTodo" /\ last'.saved)
       => \/ localStore' = localStore
          \/ \E k \in 1..Len(localStore) :
               localStore' = SubSeq(localStore, 1, k - 1)
                               \o SubSeq(localStore, k + 1, Len(localStore))]_vars

\* C34: a Convert changes the local store only by appending the records it
\* built, and a Reverse only by deleting the record it was invoked for (the
\* records with its file, line and message); every other stored record keeps
\* its place, its line and all its other fields, whatever lines the command
\* deletes from or inserts into the document.
C34_StoreFrame ==
  [][/\ (op.name = "localTodo.convertTodo" /\ op.pc = "save")
          => localStore' \in {localStore, localStore \o op.todos}
     /\ (op.name = "localTodo.editTodo" /\ op.pc = "save")
          => localStore' \in
               {localStore,
                SelectSeq(localStore, LAMBDA t :
                  ~(t.file = op.todo.file /\ t.line = op.todo.line
                    /\ t.message = op.todo.message))}]_vars

\* C35: an Update-message, Move or Assign leaves id, author and createdAt of
\* every remote record as they were and never lowers an updatedAt, and
\* updatedAt is never earlier than createdAt.
C35_RemoteRecordHistory ==
  /\ [](\A t \in Records(remoteStore) : t.updatedAt >= t.createdAt)
  /\ [][(/\ last' # last
         /\ last'.name \in {"remoteTodo.editTodo", "remoteTodo.moveTodo",
                            "remoteTodo.assignTodo"}
         /\ Len(remoteStore') = Len(remoteStore))
          => \A k \in 1..Len(remoteStore) :
               /\ remoteStore'[k].id = remoteStore[k].id
               /\ remoteStore'[k].author = remoteStore[k].author
               /\ remoteStore'[k].createdAt = remoteStore[k].createdAt
               /\ remoteStore'[k].updatedAt >= remoteStore[k].updatedAt]_vars

-----------------------------------------------------------------------------
(* Assign commands of several viewers on stored records whose author is one
   of two or more assignees. *)

\* a record remoteTodo.addTodo wrote on line lineNumber for author, with the
\* assignees later Assign commands have given it
AssignedTodo(author, assignees, lineNumber) ==
  [file |-> FileA, line |-> lineNumber, type |-> "remote", message |-> Chars("c"),
   id |-> <<"remote", FileA, lineNumber, 0>>,
   author |-> author, assignees |-> assignees, createdAt |-> 0, updatedAt |-> 0]

AssignedTodos ==
  { AssignedTodo(Alice, <<Alice>>, 0), AssignedTodo(Alice, <<Alice, Bob>>, 0),
    AssignedTodo(Bob, <<Bob, Alice>>, 1) }

InitAuthor ==
  /\ docs = [f \in Files |-> IF f = FileA THEN <<Chars("x"), Chars("x")>> ELSE <<Chars("y")>>]
  /\ docs0 = docs
  /\ localStore = <<>>
  /\ remoteStore \in StoresOf(AssignedTodos)
  /\ workspace = TRUE
  /\ gitUser \in Users
  /\ team \in {<<>>, <<Bob>>}
  /\ now = 0
  /\ op = Idle
  /\ nops = 0
  /\ last = NoCommand
  /\ todos0 = <<>>
  /\ disk = NoDisk
  /\ calls = <<>>
  /\ waiting = Idle
  /\ viewer = <<>>
  /\ shown = <<>>

NextAuthor ==
  \/ \E u \in Users : GitConfig(u)
  \/ RemoteAssign

SpecAuthor == InitAuthor /\ [][NextAuthor]_vars

\* C36: every record of the remote store is among the records
\* filterVisibleRemoteTodos returns for its author's email, whatever the
\* Assign commands have made of its assignees.
C36_AuthorSees ==
  \A t \in Records(remoteStore) :
    t \in Records(FilterVisibleRemoteTodos(LoadRemoteTodos, t.author.email))

\* an Assign has removed the author of a stored record from its assignees
C36_Witness ==
  /\ last.name = "remoteTodo.assignTodo" /\ last.saved /\ InLog(last.log, "remove")
  /\ \E t \in Records(remoteStore) :
       /\ ~SomeAssignee(t.assignees, t.author.email)
       /\ t \in Records(FilterVisibleRemoteTodos(LoadRemoteTodos, t.author.email))

-----------------------------------------------------------------------------
(* The hover provider. *)

(* provideHover(document, position): the record the hover shows on line n of
   document f, as a list of at most one record: the first stored local record
   of that line, else the first visible remote record of that line *)
ProvideHover(f, n) ==
  LET lineTodos == SelectSeq(LoadTodos, LAMBDA todo : todo.line = n)
      visibleRemoteTodos ==
        SelectSeq(FilterVisibleRemoteTodos(LoadRemoteTodos, GetGitUserInfo.email),
                  LAMBDA todo : todo.line = n)
  IN IF Len(lineTodos) > 0 THEN <<lineTodos[1]>>
     ELSE IF Len(visibleRemoteTodos) > 0 THEN <<visibleRemoteTodos[1]>>
     ELSE <<>>

\* C37: the hover on a line of a document shows only a stored record whose
\* file is that document.
C37_HoverOwnFile ==
  \A f \in Files : \A n \in 0..(LineCount(docs[f]) - 1) :
    \A t \in Records(ProvideHover(f, n)) : t.file = f

-----------------------------------------------------------------------------
(* ensureGitIgnoreEntries.  In this part `disk` is the file .gitignore, missing
   or a text, and `calls` the runs made so far: whether a run wrote the file
   and whether the write succeeded. *)

\* String.prototype.split('\n')
RECURSIVE SplitLines(_)
SplitLines(s) ==
  LET i == IndexOf(s, <<"\n">>)
  IN IF i = -1 THEN <<s>>
     ELSE <<Substring(s, 0, i)>> \o SplitLines(Substring(s, i + 1, Len(s)))

\* Array.prototype.join('\n')
RECURSIVE JoinLines(_)
JoinLines(lines) ==
  IF Len(lines) = 0 THEN <<>>
  ELSE IF Len(lines) = 1 THEN lines[1]
  ELSE lines[1] \o <<"\n">> \o JoinLines(Tail(lines))

\* lines.some(line => line === name || line === '*' + name)
HasEntry(lines, name) ==
  \E k \in 1..Len(lines) : lines[k] = name \/ lines[k] = <<"*">> \o name

LocalTodosEntry == Chars(".localtodos.json")
TeamEntry == Chars(".awesometeam.json")
RemoteTodosEntry == Chars(".remotetodos.json")

\* the trimmed lines of the content with the missing entries pushed
GitIgnoreLines(gitignoreContent) ==
  LET split == SplitLines(gitignoreContent)
      lines == [k \in 1..Len(split) |-> Trim(split[k])]
      withLocal == IF HasEntry(lines, LocalTodosEntry) THEN lines
                   ELSE Append(lines, LocalTodosEntry)
  IN IF HasEntry(withLocal, TeamEntry) THEN withLocal ELSE Append(withLocal, TeamEntry)

\* NeedsUpdate of a function that rewrites the file on every run
NeedsUpdate_Always(gitignoreContent) == TRUE

\* needsUpdate: one of the two entries was pushed
NeedsUpdate(gitignoreContent) ==
  LET split == SplitLines(gitignoreContent)
      lines == [k \in 1..Len(split) |-> Trim(split[k])]
  IN ~HasEntry(lines, LocalTodosEntry) \/ ~HasEntry(lines, TeamEntry)

\* lines.filter(line => line.length > 0).join('\n') + '\n'
UpdatedContent(gitignoreContent) ==
  JoinLines(SelectSeq(GitIgnoreLines(gitignoreContent), LAMBDA line : Len(line) > 0))
    \o <<"\n">>

\* .gitignore files found in a workspace have at most this many lines
MaxGitLines == 2

\* most runs of ensureGitIgnoreEntries in one behaviour
MaxRuns == 2

GitIgnorePool ==
  { LocalTodosEntry, <<"*">> \o LocalTodosEntry, Chars("  .awesometeam.json "),
    <<"*">> \o TeamEntry, RemoteTodosEntry, Chars("out"), <<>> }

GitIgnoreTexts ==
  { JoinLines(ls) \o end :
      ls \in UNION {[1..k -> GitIgnorePool] : k \in 0..MaxGitLines},
      end \in {<<>>, <<"\n">>} }

InitGitIgnore ==
  /\ docs = [f \in Files |-> <<Chars("x")>>]
  /\ docs0 = docs
  /\ localStore = <<>>
  /\ remoteStore = <<>>
  /\ team = <<>>
  /\ workspace \in BOOLEAN
  /\ gitUser = NoUser
  /\ now = 0
  /\ op = Idle
  /\ nops = 0
  /\ last = NoCommand
  /\ todos0 = <<>>
  /\ viewer = <<>>
  /\ shown = <<>>
  /\ waiting = Idle
  /\ disk \in {Missing} \cup {[kind |-> "text", value |-> t] : t \in GitIgnoreTexts}
  /\ calls = <<>>

\* ensureGitIgnoreEntries()
EnsureGitIgnoreEntries ==
  /\ Len(calls) < MaxRuns
  /\ LET gitignoreContent == IF disk.kind = "missing" THEN <<>> ELSE disk.value
     IN IF ~workspace
        THEN /\ disk' = disk
             /\ calls' = Append(calls, [wrote |-> FALSE, ok |-> FALSE])
        ELSE IF NeedsUpdate(gitignoreContent)
        THEN \E writeOk \in BOOLEAN :
               /\ disk' = IF writeOk
                          THEN [kind |-> "text", value |-> UpdatedContent(gitignoreContent)]
                          ELSE disk
               /\ calls' = Append(calls, [wrote |-> TRUE, ok |-> writeOk])
        ELSE /\ disk' = disk
             /\ calls' = Append(calls, [wrote |-> FALSE, ok |-> TRUE])
  /\ UNCHANGED <<docs, localStore, remoteStore, team, workspace, gitUser, now, op, nops,
                 last, docs0, todos0, viewer, shown, waiting>>

SpecGitIgnore == InitGitIgnore /\ [][EnsureGitIgnoreEntries]_vars

\* the trimmed lines of a .gitignore
LinesOf(file) ==
  IF file.kind = "missing" THEN <<>>
  ELSE LET split == SplitLines(file.value)
       IN [k \in 1..Len(split) |-> Trim(split[k])]

DiskLines == LinesOf(disk)

\* how many lines of the text are the given one
CountLines(lines, name) == Cardinality({k \in 1..Len(lines) : lines[k] = name})

\* C38: a run of ensureGitIgnoreEntries in a workspace whose write, if any,
\* succeeds leaves a .gitignore with an entry for .localtodos.json and one for
\* .awesometeam.json (a line that is, trimmed, the name or its *-pattern) and adds no line
\* .remotetodos.json; a run that follows such a run writes nothing and leaves
\* the file as it is.
C38_GitIgnoreIdempotent ==
  [][(Len(calls') = Len(calls) + 1 /\ workspace)
       => LET run == calls'[Len(calls')]
              linesAfter == LinesOf(disk')
          IN /\ run.ok =>
                  /\ HasEntry(linesAfter, LocalTodosEntry)
                  /\ HasEntry(linesAfter, TeamEntry)
             /\ CountLines(linesAfter, RemoteTodosEntry) <= CountLines(DiskLines, RemoteTodosEntry)
             /\ (Len(calls) > 0 /\ calls[Len(calls)].ok)
                  => ~run.wrote /\ disk' = disk]_vars

\* a first run has written both entries into a .gitignore that had neither,
\* and a second run has written nothing
C38_Witness ==
  /\ Len(calls) = 2
  /\ calls[1].wrote /\ calls[1].ok
  /\ ~calls[2].wrote /\ calls[2].ok
  /\ CountLines(DiskLines, LocalTodosEntry) = 1
  /\ CountLines(DiskLines, TeamEntry) = 1

====
